---- MODULE Spec2Model ----
(***************************************************************************)
(* A model of the touch-gesture classifier (InputController) and of the    *)
(* collaborative touch synchronisation (CollaborationSystem) of            *)
(* portal-reimagine.                                                       *)
(*                                                                         *)
(* Time is the value of Date.now(), in milliseconds, advancing in steps of *)
(* TimeStep.  Handlers run to completion; a setTimeout callback runs at    *)
(* any moment at which its delay has elapsed, never before.                *)
(* Screen positions are Vector2 records; the touches of the model lie on   *)
(* one horizontal line with even coordinates, which keeps every distance   *)
(* and midpoint an integer and every two-finger angle 0 or 180 degrees.    *)
(* A touch event is modelled with one changed touch.                       *)
(***************************************************************************)
EXTENDS Integers, Sequences, FiniteSets, TLC

\* ------------------------------------------------------------------------
\* Program constants (Constants.ts, and the literals of InputController.ts)
\* ------------------------------------------------------------------------
TAP_DURATION == 200
LONG_PRESS_DURATION == 500
PINCH_THRESHOLD == 10
ROTATION_THRESHOLD == 5
DOUBLE_TAP_INTERVAL == 300
TAP_MOVE_LIMIT == 10
DOUBLE_TAP_DISTANCE == 30
PERFECT_TIMING_THRESHOLD == 100
GOOD_TIMING_THRESHOLD == 300
MAX_SYNC_DELAY == 500
PROXIMITY_RADIUS == 5
\* The relay multiplier is held in tenths: 1.0, and the 0.5 of a perfect relay
INITIAL_MULTIPLIER == 10
PERFECT_BONUS == 5
PING_DELAY == 10
\* PortalManager: radii in tenths of a metre
MIN_RADIUS == 5
MAX_RADIUS == 50
BASE_RADIUS == 20

\* ------------------------------------------------------------------------
\* Bounds of the model
\* ------------------------------------------------------------------------
MaxTapTicks == 4
MaxTapContacts == 3
MaxTapMoves == 1
TapTimeStep == 150
MaxPinchContacts == 2
MaxPinchMoves == 2
AngleStep == 5
MaxSyncTicks == 3
SyncTimeStep == 250
MaxRelays == 3
MaxRelayTicks == 3
RelayTimeStep == 100
MaxNetTicks == 1
NetTimeStep == 300
MaxReceives == 3
MaxRemoteTicks == 1
MaxRemoteReceives == 2
MaxDispatchContacts == 2
MaxDispatchTicks == 2
MaxDispatchMoves == 1
DispatchTimeStep == 300
MaxScaleNum == 5
MaxPortalContacts == 2
MaxPortalMoves == 2
MaxPortals == 1
MaxStrayContacts == 2
MaxStrayMoves == 2
MaxDisposeContacts == 2
MaxDisposeMoves == 1
MaxDisposeTicks == 2
DisposeTimeStep == 300
MaxAlignTicks == 2
AlignTimeStep == 300
MaxRetryTicks == 2
RetryTimeStep == 300
MaxAbsentRelays == 1
MaxLifecycleTicks == 1
LifecycleTimeStep == 300

\* Date.now() when the session starts (any positive time)
StartTime == TapTimeStep
Contacts ==
  1..(IF MaxTapContacts > MaxPinchContacts THEN MaxTapContacts
      ELSE MaxPinchContacts)
Vec(x, y) == [x |-> x, y |-> y]
\* One finger, at two places 30 apart: outside the tap displacement and the
\* double-tap distance
TapTouchIds == {1}
TapPositions == {Vec(x, 0) : x \in {0, 30}}
\* Two fingers: distances 0, 10, 30 and 40
PinchTouchIds == {1, 2}
PinchPositions == {Vec(x, 0) : x \in {0, 30, 40}}

VARIABLES
  now,                  \* Date.now()
  touchPoints,          \* Map<number, TouchPoint>, in insertion order
  lastTapTime,
  lastTapPosition,      \* a Vector2, or Undefined
  tapCount,
  initialPinchDistance,
  initialRotationAngle,
  timers,               \* the pending setTimeout callbacks of recognizeTap
  emitted,              \* the events the last handler passed to emitGesture
  nextContact,          \* history: the number of the next touch contact
  moves,                \* history: the number of touch-move events so far
  taps,                 \* history: the calls of recognizeTap, in order
  prevTap,              \* history: time and position of the last of them
  fired,                \* history: the contacts whose deferred callback ran
  tapEvents,            \* history: per contact, the TAP events carrying it
  doubleTapEvents,      \* history: per contact, the DOUBLE_TAP events
  longPressEvents,      \* history: per contact, the LONG_PRESS events
  fingerAngle,         \* the two-finger angle of a rotation under test
  activePlayers,        \* Map<string, Player>
  challenges,           \* Map<string, CollabChallenge>, in insertion order
  relayChain,           \* string[]
  relayMultiplier,      \* in tenths: 10 is 1.0
  playerTouches,        \* Map<string, number>: playerId -> timestamp
  effects,              \* what the last operation sent, played or broadcast
  relayLog,             \* history: time and timing of the hand-offs of relayChain
  pendingEvents,        \* NetworkManager: NetworkEvent[]
  isConnected,
  latency,
  eventCallbacks,       \* Map<NetworkEventType, NetworkEventCallback[]>
  loopBacks,            \* the pending setTimeout callbacks of transmitEvent
  pings,                \* the pending setTimeout callbacks of measureLatency
  draining,             \* whether update is inside processPendingEvents
  seen,                 \* history: the envelopes handed to callbacks so far
  received,             \* history: the number of calls of receiveEvent
  accepted,             \* history: the envelopes queued while connected
  handled,              \* history: the envelopes handed out, and to whom
  lastSentStates,       \* player id -> the state cached at the last send
  lastSent,             \* history: player id -> the state sent last
  syncCount,            \* history: the calls of syncPlayerState, the sends
  gestureCallbacks,     \* InputController: Map<GestureType, GestureCallback[]>
  invoked,              \* the callbacks the last handler ran, and their events
  currentPortal,        \* PortalManager: the portal being created, or Undefined
  isCreatingPortal,
  portals,              \* Map<string, Portal>, in insertion order
  disposed,             \* history: whether dispose was called
  failedAttempts,       \* history: the challenges a touch left misaligned
  ignoredCalls,         \* history: the operations called for absent players
  lifecycleLog,         \* history: the lifecycle notifications sent so far
  puzzle,               \* BasePuzzle: state, progress, times, attempts
  touchTargets,         \* MultiTouchPuzzle: TouchTarget[]
  completions,          \* history: the completion callbacks run
  puzzleCalls           \* history: the inputs handed to the puzzle

inputVars == <<touchPoints, lastTapTime, lastTapPosition, tapCount,
               initialPinchDistance, initialRotationAngle, timers, emitted,
               nextContact, moves, taps, prevTap, fired, tapEvents,
               doubleTapEvents,
               longPressEvents, invoked>>

collabVars == <<activePlayers, challenges, relayChain, relayMultiplier,
                playerTouches, effects, relayLog>>

syncVars == <<lastSentStates, lastSent, syncCount>>

netVars == <<pendingEvents, isConnected, latency, eventCallbacks, loopBacks,
             pings, draining, seen, received, accepted, handled, syncVars>>

puzzleVars == <<puzzle, touchTargets, completions, puzzleCalls>>

\* The systems neither InputController nor CollaborationSystem refers to
otherSystems == <<netVars, gestureCallbacks, puzzleVars>>

\* What the operations of NetworkManager leave alone, but for the callbacks
\* they run
beyondNet == <<now, inputVars, fingerAngle, collabVars>>

portalVars == <<currentPortal, isCreatingPortal, portals>>

\* The histories of single sessions
histories == <<disposed, failedAttempts, ignoredCalls, lifecycleLog>>

\* The systems NetworkManager and its callbacks do not refer to
otherThanNet == <<gestureCallbacks, portalVars, histories, puzzleVars>>

\* What the handlers of InputController leave alone
beyondInput == <<fingerAngle, collabVars, otherSystems>>

vars == <<now, inputVars, fingerAngle, collabVars, otherSystems, portalVars,
         histories>>

\* An optional value: Undefined, or Some(v); Get(o) is the value
Undefined == <<>>
Some(v) == <<v>>
Get(o) == o[1]

\* ------------------------------------------------------------------------
\* Vector2
\* ------------------------------------------------------------------------
Abs(n) == IF n < 0 THEN -n ELSE n

\* Math.sqrt of dx*dx + dy*dy, which is between 0 and |dx| + |dy| (exact on
\* the squares the model's points produce)
Sqrt(n, most) ==
  IF most * most = n THEN most
  ELSE CHOOSE r \in 0..most : r * r <= n /\ n < (r + 1) * (r + 1)

distance(a, b) ==
  LET dx == a.x - b.x
      dy == a.y - b.y
  IN  Sqrt(dx * dx + dy * dy, Abs(dx) + Abs(dy))

midpoint(a, b) == Vec((a.x + b.x) \div 2, (a.y + b.y) \div 2)

\* Math.atan2(dy, dx) * (180 / Math.PI), on the eight directions where it
\* is a whole number of degrees; atan2(0, 0) is 0
calculateAngle(point1, point2) ==
  LET dx == point2.x - point1.x
      dy == point2.y - point1.y
  IN  CASE dy = 0 /\ dx >= 0 -> 0
        [] dy = 0 /\ dx < 0 -> 180
        [] dx = 0 /\ dy > 0 -> 90
        [] dx = 0 /\ dy < 0 -> -90
        [] dy > 0 /\ dx = dy -> 45
        [] dy > 0 /\ dx = -dy -> 135
        [] dy < 0 /\ dx = -dy -> -45
        [] dy < 0 /\ dx = dy -> -135

\* ------------------------------------------------------------------------
\* The touch map
\* ------------------------------------------------------------------------
IndexOf(tps, id) ==
  IF \E i \in 1..Len(tps) : tps[i].id = id
  THEN CHOOSE i \in 1..Len(tps) : tps[i].id = id
  ELSE 0

\* Map.set: a new key goes last, an existing key keeps its place
MapSet(tps, tp) ==
  IF IndexOf(tps, tp.id) = 0 THEN Append(tps, tp)
  ELSE [tps EXCEPT ![IndexOf(tps, tp.id)] = tp]

\* Map.delete
MapDelete(tps, id) ==
  LET k == IndexOf(tps, id)
  IN  IF k = 0 THEN tps
      ELSE [i \in 1..(Len(tps) - 1) |-> IF i < k THEN tps[i] ELSE tps[i + 1]]

ContactsOf(tps) == [i \in 1..Len(tps) |-> tps[i].contact]

\* ------------------------------------------------------------------------
\* Gesture events
\* ------------------------------------------------------------------------
TapEvent(tp) ==
  [type |-> "tap", touchPoints |-> <<tp.contact>>, position |-> tp.position]
DoubleTapEvent(tp) ==
  [type |-> "double_tap", touchPoints |-> <<tp.contact>>,
   position |-> tp.position]
LongPressEvent(tp) ==
  [type |-> "long_press", touchPoints |-> <<tp.contact>>,
   position |-> tp.position]

\* The number of events of one type that carry contact c
Carrying(evs, type, c) ==
  Cardinality({i \in 1..Len(evs) :
     evs[i].type = type /\ \E k \in 1..Len(evs[i].touchPoints) :
                              evs[i].touchPoints[k] = c})

Bump(counter, evs, type) ==
  [c \in Contacts |-> counter[c] + Carrying(evs, type, c)]

\* ------------------------------------------------------------------------
\* InputController: discrete gestures (touch end)
\* ------------------------------------------------------------------------
\* The test of recognizeTap for a double tap
IsDoubleTap(touchPoint) ==
  /\ lastTapPosition # Undefined
  /\ distance(touchPoint.position, Get(lastTapPosition)) < DOUBLE_TAP_DISTANCE
  /\ now - lastTapTime < DOUBLE_TAP_INTERVAL

\* History: the tap of touchPoint, recognised now. soon: it ends within the
\* double-tap interval of the tap before it; near: and within the double-tap
\* distance of it; timer: a deferred callback was scheduled for it; double:
\* DOUBLE_TAP was emitted for it
TapRecord(touchPoint, timer, double) ==
  LET soon == /\ prevTap # Undefined
              /\ now - Get(prevTap).time < DOUBLE_TAP_INTERVAL
      dx == touchPoint.position.x - Get(prevTap).position.x
      dy == touchPoint.position.y - Get(prevTap).position.y
  IN  [contact |-> touchPoint.contact,
       soon |-> soon,
       near |-> soon /\ dx * dx + dy * dy
                         < DOUBLE_TAP_DISTANCE * DOUBLE_TAP_DISTANCE,
       timer |-> timer,
       double |-> double]

\* The touch point a deferred callback holds: what its event shows of it
Captured(touchPoint) ==
  [id |-> touchPoint.id, contact |-> touchPoint.contact,
   position |-> touchPoint.position]

\* recognizeTap: what it emits at once, the tap count and timers it leaves
recognizeTap(touchPoint) ==
  IF IsDoubleTap(touchPoint)
  THEN [tapCount |-> IF tapCount + 1 = 2 THEN 0 ELSE tapCount + 1,
        events |-> IF tapCount + 1 = 2 THEN <<DoubleTapEvent(touchPoint)>>
                   ELSE <<>>,
        timers |-> timers,
        lastTapTime |-> now,
        lastTapPosition |-> Some(touchPoint.position),
        tapped |-> Some(TapRecord(touchPoint, FALSE, tapCount + 1 = 2))]
  ELSE [tapCount |-> 1,
        events |-> <<>>,
        timers |-> timers \cup {[due |-> now + DOUBLE_TAP_INTERVAL,
                                 touchPoint |-> Captured(touchPoint)]},
        lastTapTime |-> now,
        lastTapPosition |-> Some(touchPoint.position),
        tapped |-> Some(TapRecord(touchPoint, TRUE, FALSE))]

\* The callback recognizeTap hands to setTimeout
TapTimeout(touchPoint) ==
  IF tapCount = 1 THEN <<TapEvent(touchPoint)>> ELSE <<>>

IsTapCandidate(touchPoint) ==
  /\ touchPoint.duration < TAP_DURATION
  /\ distance(touchPoint.position, touchPoint.startPosition) < TAP_MOVE_LIMIT

\* A variant of IsLongPress with the comparison reversed
IsLongPress_Reversed(touchPoint) == touchPoint.duration < LONG_PRESS_DURATION

IsLongPress(touchPoint) == touchPoint.duration > LONG_PRESS_DURATION

recognizeDiscreteGestures(touchPoint) ==
  LET t == IF IsTapCandidate(touchPoint) THEN recognizeTap(touchPoint)
           ELSE [tapCount |-> tapCount, events |-> <<>>, timers |-> timers,
                 lastTapTime |-> lastTapTime,
                 lastTapPosition |-> lastTapPosition, tapped |-> Undefined]
  IN  [t EXCEPT !.events =
         IF IsLongPress(touchPoint) THEN @ \o <<LongPressEvent(touchPoint)>>
         ELSE @]

\* ------------------------------------------------------------------------
\* InputController: continuous gestures (touch move)
\* ------------------------------------------------------------------------
ZeroVelocity == [v |-> Vec(0, 0), per |-> 1]

\* deltaPosition / deltaTime in pixels per second, deltaTime being
\* deltaTimeMs / 1000: the vector v over per
velocityOf(deltaPosition, deltaTimeMs) ==
  IF deltaTimeMs > 0
  THEN [v |-> Vec(deltaPosition.x * 1000, deltaPosition.y * 1000),
        per |-> deltaTimeMs]
  ELSE ZeroVelocity

\* velocity.magnitude() > SWIPE_VELOCITY_THRESHOLD, the threshold being 0.5
ExceedsSwipeVelocity(velocity) ==
  2 * distance(velocity.v, Vec(0, 0)) > velocity.per

SwipeEvent(tps) ==
  [type |-> "swipe", touchPoints |-> ContactsOf(tps),
   position |-> tps[1].position, velocity |-> tps[1].velocity,
   delta |-> tps[1].deltaPosition]

initializePinchGesture(touchArray) ==
  IF Len(touchArray) = 2
  THEN distance(touchArray[1].position, touchArray[2].position)
  ELSE initialPinchDistance

initializeRotationGesture(touchArray) ==
  IF Len(touchArray) = 2
  THEN calculateAngle(touchArray[1].position, touchArray[2].position)
  ELSE initialRotationAngle

\* A variant of PinchType with the two gesture types exchanged
PinchType_Exchanged(scale) == IF scale.num > scale.den THEN "pinch" ELSE "zoom"

\* scale > 1.0 ? ZOOM : PINCH, the scale being num / den
PinchType(scale) == IF scale.num > scale.den THEN "zoom" ELSE "pinch"

\* recognizePinchGesture: the baseline it leaves and what it emits
recognizePinchGesture(touchArray) ==
  LET currentDistance ==
        distance(touchArray[1].position, touchArray[2].position)
      scale == [num |-> currentDistance, den |-> initialPinchDistance]
  IN  IF initialPinchDistance = 0
      THEN [initialPinchDistance |-> currentDistance, events |-> <<>>]
      ELSE IF Abs(currentDistance - initialPinchDistance) > PINCH_THRESHOLD
      THEN [initialPinchDistance |-> initialPinchDistance,
            events |-> <<[type |-> PinchType(scale),
                          touchPoints |-> ContactsOf(touchArray),
                          position |-> midpoint(touchArray[1].position,
                                                touchArray[2].position),
                          scale |-> scale]>>]
      ELSE [initialPinchDistance |-> initialPinchDistance, events |-> <<>>]

\* A variant of NormalizeAngle that does not wrap
NormalizeAngle_None(angleDelta) == angleDelta

\* The normalisation of recognizeRotationGesture
NormalizeAngle(angleDelta) ==
  LET a == IF angleDelta > 180 THEN angleDelta - 360 ELSE angleDelta
  IN  IF a < -180 THEN a + 360 ELSE a

\* recognizeRotationGesture, given the angle calculateAngle returned (the
\* baseline is a number, never null)
RotationEvents(initialAngle, currentAngle, contacts, position) ==
  LET angleDelta == NormalizeAngle(currentAngle - initialAngle)
  IN  IF Abs(angleDelta) > ROTATION_THRESHOLD
      THEN <<[type |-> "rotate", touchPoints |-> contacts,
              position |-> position, rotation |-> angleDelta]>>
      ELSE <<>>

recognizeRotationGesture(touchArray) ==
  RotationEvents(initialRotationAngle,
                 calculateAngle(touchArray[1].position, touchArray[2].position),
                 ContactsOf(touchArray),
                 midpoint(touchArray[1].position, touchArray[2].position))

recognizeContinuousGestures(touchArray) ==
  IF Len(touchArray) = 1
  THEN [initialPinchDistance |-> initialPinchDistance,
        events |-> IF ExceedsSwipeVelocity(touchArray[1].velocity)
                   THEN <<SwipeEvent(touchArray)>> ELSE <<>>]
  ELSE IF Len(touchArray) = 2
  THEN [recognizePinchGesture(touchArray) EXCEPT
          !.events = @ \o recognizeRotationGesture(touchArray)]
  ELSE [initialPinchDistance |-> initialPinchDistance, events |-> <<>>]

\* ------------------------------------------------------------------------
\* InputController: the handlers
\* ------------------------------------------------------------------------
\* emitGesture: the callbacks registered for the type of the event
callbacksFor(event) ==
  IF event.type \in DOMAIN gestureCallbacks THEN gestureCallbacks[event.type]
  ELSE <<>>

\* The place of the first callback of the event that throws, 0 without one
FirstThrow(event) ==
  LET throwers == {i \in 1..Len(callbacksFor(event)) :
                     callbacksFor(event)[i].throws}
  IN  IF throwers = {} THEN 0
      ELSE CHOOSE i \in throwers : \A j \in throwers : i <= j

\* emitGesture: forEach runs the callbacks in order; the exception of one
\* ends the loop and leaves emitGesture
emitGesture(event) ==
  LET last == IF FirstThrow(event) = 0 THEN Len(callbacksFor(event))
              ELSE FirstThrow(event)
  IN  [invoked |-> [i \in 1..last |->
                      [callback |-> callbacksFor(event)[i].name,
                       event |-> event]],
       thrown |-> FirstThrow(event) # 0]

\* The events of a handler, emitted in order until a callback throws
Emit(events) ==
  LET bad == {i \in 1..Len(events) : emitGesture(events[i]).thrown}
      last == IF bad = {} THEN Len(events)
              ELSE CHOOSE i \in bad : \A j \in bad : i <= j
  IN  [invoked |-> [i \in 1..last |-> emitGesture(events[i]).invoked],
       thrown |-> bad # {}]

InputInit ==
  /\ touchPoints = <<>>
  /\ lastTapTime = 0
  /\ lastTapPosition = Undefined
  /\ tapCount = 0
  /\ initialPinchDistance = 0
  /\ initialRotationAngle = 0
  /\ timers = {}
  /\ emitted = <<>>
  /\ invoked = <<>>
  /\ nextContact = 1
  /\ moves = 0
  /\ taps = <<>>
  /\ prevTap = Undefined
  /\ fired = {}
  /\ tapEvents = [c \in Contacts |-> 0]
  /\ doubleTapEvents = [c \in Contacts |-> 0]
  /\ longPressEvents = [c \in Contacts |-> 0]

Count(evs) ==
  /\ tapEvents' = Bump(tapEvents, evs, "tap")
  /\ doubleTapEvents' = Bump(doubleTapEvents, evs, "double_tap")
  /\ longPressEvents' = Bump(longPressEvents, evs, "long_press")

onTouchStart(id, position) ==
  LET touchPoint == [id |-> id, contact |-> nextContact,
                     position |-> position, startPosition |-> position,
                     deltaPosition |-> Vec(0, 0), velocity |-> ZeroVelocity,
                     timestamp |-> now, startTime |-> now, duration |-> 0]
      touchArray == MapSet(touchPoints, touchPoint)
  IN  /\ touchPoints' = touchArray
      /\ initialPinchDistance' = initializePinchGesture(touchArray)
      /\ initialRotationAngle' = initializeRotationGesture(touchArray)
      /\ nextContact' = nextContact + 1
      /\ emitted' = <<>>
      /\ invoked' = <<>>
      /\ moves' = moves
      /\ UNCHANGED <<now, lastTapTime, lastTapPosition, tapCount, timers,
                     taps, prevTap, fired, tapEvents, doubleTapEvents,
                     longPressEvents, beyondInput>>

\* The update onTouchMove makes to the touch point of the changed touch
MovedTouch(touchPoint, newPosition) ==
  LET deltaPosition == Vec(newPosition.x - touchPoint.position.x,
                           newPosition.y - touchPoint.position.y)
  IN  [touchPoint EXCEPT
         !.position = newPosition,
         !.deltaPosition = deltaPosition,
         !.velocity = velocityOf(deltaPosition, now - touchPoint.timestamp),
         !.timestamp = now,
         !.duration = now - touchPoint.startTime]

onTouchMove(id, newPosition) ==
  LET k == IndexOf(touchPoints, id)
      touchArray ==
        IF k = 0 THEN touchPoints
        ELSE [touchPoints EXCEPT ![k] = MovedTouch(touchPoints[k], newPosition)]
      r == recognizeContinuousGestures(touchArray)
  IN  /\ touchPoints' = touchArray
      /\ initialPinchDistance' = r.initialPinchDistance
      /\ emitted' = r.events
      /\ invoked' = Emit(r.events).invoked
      /\ moves' = moves + 1
      /\ UNCHANGED <<now, lastTapTime, lastTapPosition, tapCount,
                     initialRotationAngle, timers, nextContact, taps, prevTap,
                     fired, tapEvents, doubleTapEvents, longPressEvents,
                     beyondInput>>

onTouchEnd(id) ==
  LET k == IndexOf(touchPoints, id)
      touchPoint == [touchPoints[k] EXCEPT
                      !.duration = now - touchPoints[k].startTime]
      r == IF k = 0
           THEN [tapCount |-> tapCount, events |-> <<>>, timers |-> timers,
                 lastTapTime |-> lastTapTime,
                 lastTapPosition |-> lastTapPosition, tapped |-> Undefined]
           ELSE recognizeDiscreteGestures(touchPoint)
      touchArray == MapDelete(touchPoints, id)
      e == Emit(r.events)
  IN  /\ IF e.thrown
         THEN \* the exception leaves recognizeTap, if the event is the
              \* DOUBLE_TAP, then recognizeDiscreteGestures and the handler
              /\ touchPoints' = [touchPoints EXCEPT ![k] = touchPoint]
              /\ IF r.events[1].type = "double_tap"
                 THEN /\ tapCount' = tapCount + 1
                      /\ UNCHANGED <<timers, lastTapTime, lastTapPosition>>
                 ELSE /\ tapCount' = r.tapCount
                      /\ timers' = r.timers
                      /\ lastTapTime' = r.lastTapTime
                      /\ lastTapPosition' = r.lastTapPosition
              /\ UNCHANGED <<initialPinchDistance, initialRotationAngle>>
         ELSE /\ touchPoints' = touchArray
              /\ tapCount' = r.tapCount
              /\ timers' = r.timers
              /\ lastTapTime' = r.lastTapTime
              /\ lastTapPosition' = r.lastTapPosition
              /\ initialPinchDistance' =
                   IF Len(touchArray) < 2 THEN 0 ELSE initialPinchDistance
              /\ initialRotationAngle' =
                   IF Len(touchArray) < 2 THEN 0 ELSE initialRotationAngle
      /\ taps' = taps \o r.tapped
      /\ prevTap' = IF r.tapped = Undefined THEN prevTap
                    ELSE Some([time |-> now, position |-> touchPoint.position])
      /\ emitted' = r.events
      /\ invoked' = e.invoked
      /\ Count(r.events)
      /\ UNCHANGED <<now, nextContact, moves, fired, beyondInput>>

onTouchCancel(id) ==
  /\ touchPoints' = MapDelete(touchPoints, id)
  /\ emitted' = <<>>
  /\ invoked' = <<>>
  /\ UNCHANGED <<now, lastTapTime, lastTapPosition, tapCount,
                 initialPinchDistance, initialRotationAngle, timers,
                 nextContact, moves, taps, prevTap, fired, tapEvents,
                 doubleTapEvents, longPressEvents, beyondInput>>

\* A setTimeout callback of recognizeTap runs, its delay having elapsed
TimerFire(t) ==
  /\ now >= t.due
  /\ timers' = timers \ {t}
  /\ emitted' = TapTimeout(t.touchPoint)
  /\ invoked' = Emit(TapTimeout(t.touchPoint)).invoked
  /\ Count(TapTimeout(t.touchPoint))
  /\ fired' = fired \cup {t.touchPoint.contact}
  /\ UNCHANGED <<now, touchPoints, lastTapTime, lastTapPosition, tapCount,
                 initialPinchDistance, initialRotationAngle, nextContact,
                 moves, taps, prevTap, beyondInput>>

\* dispose: the listeners are handed to removeEventListener; no field of the
\* controller changes and no timer is cleared
dispose ==
  /\ disposed' = TRUE
  /\ UNCHANGED <<failedAttempts, ignoredCalls, lifecycleLog>>
  /\ UNCHANGED <<now, inputVars, beyondInput, portalVars>>

\* Time passes
Tick(step, maxTicks) ==
  /\ now + step <= StartTime + maxTicks * step
  /\ now' = now + step
  /\ UNCHANGED <<inputVars, beyondInput, portalVars, histories>>

\* ------------------------------------------------------------------------
\* CollaborationSystem
\* ------------------------------------------------------------------------
Vec3(x, y, z) == [x |-> x, y |-> y, z |-> z]

\* Vector3.distance
distance3(a, b) ==
  LET dx == a.x - b.x
      dy == a.y - b.y
      dz == a.z - b.z
  IN  Sqrt(dx * dx + dy * dy + dz * dz, Abs(dx) + Abs(dy) + Abs(dz))

Min(S) == CHOOSE m \in S : \A n \in S : m <= n
Max(S) == CHOOSE m \in S : \A n \in S : m >= n

\* Map.set and Map.delete on a map held as a function
Put(map, key, value) ==
  [k \in DOMAIN map \cup {key} |-> IF k = key THEN value ELSE map[k]]
Remove(map, key) == [k \in DOMAIN map \ {key} |-> map[k]]
NoEntries == [k \in {} |-> 0]

RECURSIVE Concat(_)
Concat(seqs) == IF seqs = <<>> THEN <<>> ELSE Head(seqs) \o Concat(Tail(seqs))

\* The sounds, messages and haptics an operation hands to the platform
Sound(sound) == [kind |-> "sound", sound |-> sound]
SendTo(playerIds, eventType, challengeId) ==
  [kind |-> "sendTo", to |-> playerIds, event |-> eventType,
   challengeId |-> challengeId]
Broadcast(eventType, subject, timestamp) ==
  [kind |-> "broadcast", event |-> eventType, subject |-> subject,
   timestamp |-> timestamp]
Haptic(playerIds, pattern) ==
  [kind |-> "haptic", to |-> playerIds, pattern |-> pattern]

CollabInit ==
  /\ activePlayers = NoEntries
  /\ challenges = <<>>
  /\ relayChain = <<>>
  /\ relayMultiplier = INITIAL_MULTIPLIER
  /\ playerTouches = NoEntries
  /\ effects = <<>>
  /\ relayLog = <<>>

registerPlayer(player) ==
  /\ activePlayers' = Put(activePlayers, player.id, player)
  /\ effects' = <<>>
  /\ UNCHANGED <<challenges, relayChain, relayMultiplier, playerTouches,
                 relayLog, now, inputVars, fingerAngle>>

\* A variant of unregisterPlayer that keeps the touch timestamp
unregisterPlayer_KeepsTouch(playerId) ==
  /\ activePlayers' = Remove(activePlayers, playerId)
  /\ playerTouches' = playerTouches
  /\ challenges' =
       [i \in 1..Len(challenges) |->
          [challenges[i] EXCEPT !.participants = @ \ {playerId}]]
  /\ effects' = <<>>
  /\ UNCHANGED <<relayChain, relayMultiplier, relayLog, now, inputVars,
                 fingerAngle>>

unregisterPlayer(playerId) ==
  /\ activePlayers' = Remove(activePlayers, playerId)
  /\ playerTouches' = Remove(playerTouches, playerId)
  /\ challenges' =
       [i \in 1..Len(challenges) |->
          [challenges[i] EXCEPT !.participants = @ \ {playerId}]]
  /\ effects' = <<>>
  /\ UNCHANGED <<relayChain, relayMultiplier, relayLog, now, inputVars,
                 fingerAngle>>

\* generateChallengeId gives every challenge an id of its own: its number
createChallenge(type, position, requiredPlayers) ==
  /\ challenges' =
       Append(challenges,
              [id |-> Len(challenges) + 1,
               type |-> type,
               requiredPlayers |-> requiredPlayers,
               participants |-> {},
               isActive |-> FALSE,
               isCompleted |-> FALSE,
               startTime |-> Undefined,
               position |-> position,
               proximityRadius |-> PROXIMITY_RADIUS])
  /\ effects' = <<>>
  /\ UNCHANGED <<activePlayers, relayChain, relayMultiplier, playerTouches,
                 relayLog, now, inputVars, fingerAngle>>

\* activateChallenge: the challenge it leaves, and what it sends
activateChallenge(challenge) ==
  [challenge EXCEPT !.isActive = TRUE, !.startTime = Some(now)]

ActivationEffects(challenge) ==
  <<Sound("ui_click"),
    SendTo(challenge.participants, "challenge_activated", challenge.id),
    Haptic(challenge.participants, "collab_start")>>

\* A variant of NearbyPlayers that leaves out the players on the boundary
NearbyPlayers_Inside(challenge) ==
  {p \in DOMAIN activePlayers :
     distance3(activePlayers[p].position, challenge.position)
       < challenge.proximityRadius}

\* The body of the loop of updatePlayerProximity, for one challenge
NearbyPlayers(challenge) ==
  {p \in DOMAIN activePlayers :
     distance3(activePlayers[p].position, challenge.position)
       <= challenge.proximityRadius}

\* A variant of Activates without the test that the challenge is not active
Activates_Again(challenge) ==
  /\ ~challenge.isCompleted
  /\ Cardinality(NearbyPlayers(challenge)) >= challenge.requiredPlayers

Activates(challenge) ==
  /\ ~challenge.isCompleted
  /\ Cardinality(NearbyPlayers(challenge)) >= challenge.requiredPlayers
  /\ ~challenge.isActive

ProximityOf(challenge) ==
  IF challenge.isCompleted THEN challenge
  ELSE LET near == [challenge EXCEPT !.participants = NearbyPlayers(challenge)]
       IN  IF Activates(challenge) THEN activateChallenge(near) ELSE near

updatePlayerProximity ==
  /\ challenges' = [i \in 1..Len(challenges) |-> ProximityOf(challenges[i])]
  /\ effects' =
       Concat([i \in 1..Len(challenges) |->
                 IF Activates(challenges[i])
                 THEN ActivationEffects(ProximityOf(challenges[i]))
                 ELSE <<>>])
  /\ UNCHANGED <<activePlayers, relayChain, relayMultiplier, playerTouches,
                 relayLog, now, inputVars, fingerAngle>>

\* A variant of completeChallenge that leaves the challenge active
completeChallenge_StaysActive(challenge) ==
  [challenge EXCEPT !.isCompleted = TRUE]

\* completeChallenge: the challenge it leaves, and what it sends
completeChallenge(challenge) ==
  [challenge EXCEPT !.isCompleted = TRUE, !.isActive = FALSE]

CompletionEffects(challenge) ==
  <<Sound("collab_success"),
    Sound("puzzle_complete"),
    Haptic(challenge.participants, "success"),
    Broadcast("challenge_reward", challenge.id, now),
    SendTo(challenge.participants, "challenge_completed", challenge.id)>>

\* A variant of checkTouchSynchronization that leaves the boundary out
checkTouchSynchronization_Strict(playerIds, touches) ==
  IF Cardinality(playerIds) < 2 THEN FALSE
  ELSE LET timestamps == {touches[p] : p \in playerIds \cap DOMAIN touches}
       IN  IF Cardinality(playerIds \cap DOMAIN touches)
                < Cardinality(playerIds)
           THEN FALSE
           ELSE Max(timestamps) - Min(timestamps) < MAX_SYNC_DELAY

\* checkTouchSynchronization, on the touch timestamps given
checkTouchSynchronization(playerIds, touches) ==
  IF Cardinality(playerIds) < 2 THEN FALSE
  ELSE LET timestamps == {touches[p] : p \in playerIds \cap DOMAIN touches}
       IN  IF Cardinality(playerIds \cap DOMAIN touches)
                < Cardinality(playerIds)
           THEN FALSE
           ELSE Max(timestamps) - Min(timestamps) <= MAX_SYNC_DELAY

\* The test of the loop of checkSynchronizedTouch, for one challenge
Completes(challenge, touches) ==
  /\ challenge.type = "synchronized_touch"
  /\ challenge.isActive
  /\ ~challenge.isCompleted
  /\ LET touchingPlayers == challenge.participants \cap DOMAIN touches
     IN  /\ Cardinality(touchingPlayers) >= challenge.requiredPlayers
         /\ checkTouchSynchronization(touchingPlayers, touches)

checkSynchronizedTouch(touches) ==
  [i \in 1..Len(challenges) |->
     IF Completes(challenges[i], touches)
     THEN completeChallenge(challenges[i]) ELSE challenges[i]]

SynchronizedTouchEffects(touches) ==
  Concat([i \in 1..Len(challenges) |->
            IF Completes(challenges[i], touches)
            THEN CompletionEffects(challenges[i]) ELSE <<>>])

\* A variant of onPlayerTouch that keeps the timestamp of a player who is
\* touching already
onPlayerTouch_KeepsFirstTouch(playerId) ==
  /\ IF playerId \notin DOMAIN activePlayers
     THEN /\ effects' = <<>>
          /\ UNCHANGED <<activePlayers, playerTouches, challenges>>
     ELSE LET timestamp == IF playerId \in DOMAIN playerTouches
                           THEN playerTouches[playerId] ELSE now
              touches == Put(playerTouches, playerId, timestamp)
          IN  /\ activePlayers' =
                   [activePlayers EXCEPT
                      ![playerId].isTouching = TRUE,
                      ![playerId].touchTimestamp = Some(timestamp)]
              /\ playerTouches' = touches
              /\ challenges' = checkSynchronizedTouch(touches)
              /\ effects' =
                   SynchronizedTouchEffects(touches)
                     \o <<Broadcast("touch_event", playerId, timestamp)>>
  /\ UNCHANGED <<relayChain, relayMultiplier, relayLog, now, inputVars,
                 fingerAngle>>

onPlayerTouch(playerId) ==
  /\ IF playerId \notin DOMAIN activePlayers
     THEN /\ effects' = <<>>
          /\ UNCHANGED <<activePlayers, playerTouches, challenges>>
     ELSE LET timestamp == now
              touches == Put(playerTouches, playerId, timestamp)
          IN  /\ activePlayers' =
                   [activePlayers EXCEPT
                      ![playerId].isTouching = TRUE,
                      ![playerId].touchTimestamp = Some(timestamp)]
              /\ playerTouches' = touches
              /\ challenges' = checkSynchronizedTouch(touches)
              /\ effects' =
                   SynchronizedTouchEffects(touches)
                     \o <<Broadcast("touch_event", playerId, timestamp)>>
  /\ UNCHANGED <<relayChain, relayMultiplier, relayLog, now, inputVars,
                 fingerAngle>>

onPlayerTouchRelease(playerId) ==
  /\ IF playerId \notin DOMAIN activePlayers
     THEN UNCHANGED <<activePlayers, playerTouches>>
     ELSE /\ activePlayers' =
               [activePlayers EXCEPT
                  ![playerId].isTouching = FALSE,
                  ![playerId].touchTimestamp = Undefined]
          /\ playerTouches' = Remove(playerTouches, playerId)
  /\ effects' = <<>>
  /\ UNCHANGED <<challenges, relayChain, relayMultiplier, relayLog, now,
                 inputVars, fingerAngle>>

\* The classification of initiateEnergyRelay, given the time since the
\* reference it reads
RelayTimingOf(timeDiff) ==
  IF timeDiff < PERFECT_TIMING_THRESHOLD THEN "perfect"
  ELSE IF timeDiff < GOOD_TIMING_THRESHOLD THEN "good"
  ELSE "miss"

\* The reference time initiateEnergyRelay reads: the touch timestamp of the
\* last player of the chain, when there is one and it is not 0
lastRelayTime ==
  IF Len(relayChain) = 0 THEN Undefined
  ELSE LET last == relayChain[Len(relayChain)]
       IN  IF last \in DOMAIN playerTouches /\ playerTouches[last] # 0
           THEN Some(playerTouches[last]) ELSE Undefined

\* A variant of RelayMultiplierAfter that takes the bonus back on a miss
RelayMultiplierAfter_Penalty(timing) ==
  IF timing = "perfect" THEN relayMultiplier + PERFECT_BONUS
  ELSE IF timing = "good" THEN relayMultiplier
  ELSE relayMultiplier - PERFECT_BONUS

\* The multiplier a classified hand-off leaves
RelayMultiplierAfter(timing) ==
  IF timing = "perfect" THEN relayMultiplier + PERFECT_BONUS
  ELSE IF timing = "good" THEN relayMultiplier
  ELSE INITIAL_MULTIPLIER

getRelayHapticPattern(timing) ==
  IF timing = "perfect" THEN "relay_perfect"
  ELSE IF timing = "good" THEN "relay_good"
  ELSE "relay_miss"

RelayEffects(relayEvent) ==
  <<Sound(IF relayEvent.timing = "perfect" THEN "collab_success"
          ELSE "energy_collect"),
    Haptic({relayEvent.toPlayerId}, getRelayHapticPattern(relayEvent.timing))>>

\* A variant of initiateEnergyRelay that looks only for the sender
initiateEnergyRelay_SenderOnly(fromPlayerId, toPlayerId) ==
  /\ IF fromPlayerId \notin DOMAIN activePlayers
     THEN /\ effects' = <<>>
          /\ UNCHANGED <<relayChain, relayMultiplier, playerTouches, relayLog>>
     ELSE LET timestamp == now
              classified == lastRelayTime # Undefined
              timing == IF classified
                        THEN RelayTimingOf(timestamp - Get(lastRelayTime))
                        ELSE "good"
              relayEvent == [fromPlayerId |-> fromPlayerId,
                             toPlayerId |-> toPlayerId,
                             timestamp |-> timestamp,
                             timing |-> timing]
          IN  /\ relayMultiplier' = IF classified THEN RelayMultiplierAfter(timing)
                                    ELSE relayMultiplier
              /\ relayChain' = Append(relayChain, toPlayerId)
              /\ playerTouches' = Put(playerTouches, toPlayerId, timestamp)
              /\ effects' = RelayEffects(relayEvent)
              /\ relayLog' = Append(relayLog, [timestamp |-> timestamp,
                                                timing |-> timing])
  /\ UNCHANGED <<activePlayers, challenges, now, inputVars, fingerAngle>>

initiateEnergyRelay(fromPlayerId, toPlayerId) ==
  /\ IF fromPlayerId \notin DOMAIN activePlayers
        \/ toPlayerId \notin DOMAIN activePlayers
     THEN /\ effects' = <<>>
          /\ UNCHANGED <<relayChain, relayMultiplier, playerTouches, relayLog>>
     ELSE LET timestamp == now
              classified == lastRelayTime # Undefined
              timing == IF classified
                        THEN RelayTimingOf(timestamp - Get(lastRelayTime))
                        ELSE "good"
              relayEvent == [fromPlayerId |-> fromPlayerId,
                             toPlayerId |-> toPlayerId,
                             timestamp |-> timestamp,
                             timing |-> timing]
          IN  /\ relayMultiplier' = IF classified THEN RelayMultiplierAfter(timing)
                                    ELSE relayMultiplier
              /\ relayChain' = Append(relayChain, toPlayerId)
              /\ playerTouches' = Put(playerTouches, toPlayerId, timestamp)
              /\ effects' = RelayEffects(relayEvent)
              /\ relayLog' = Append(relayLog, [timestamp |-> timestamp,
                                                timing |-> timing])
  /\ UNCHANGED <<activePlayers, challenges, now, inputVars, fingerAngle>>

resetRelayChain ==
  /\ relayChain' = <<>>
  /\ relayMultiplier' = INITIAL_MULTIPLIER
  /\ relayLog' = <<>>
  /\ effects' = <<>>
  /\ UNCHANGED <<activePlayers, challenges, playerTouches, now, inputVars,
                 fingerAngle>>

\* ------------------------------------------------------------------------
\* NetworkManager
\* ------------------------------------------------------------------------
\* The identifier the NetworkManager was constructed with
localPlayerId == "p1"

\* NetworkEventType.TOUCH_EVENT
TOUCH_EVENT == "touch_event"

\* A NetworkEvent
Envelope(type, senderId, timestamp, data) ==
  [type |-> type, senderId |-> senderId, timestamp |-> timestamp,
   data |-> data]

\* The payload of broadcastTouchEvent
TouchData(playerId, isTouching, timestamp) ==
  [playerId |-> playerId, isTouching |-> isTouching, timestamp |-> timestamp]

\* After the constructor: initialize has connected, nothing is registered
\* or queued
NetInit ==
  /\ pendingEvents = <<>>
  /\ isConnected = TRUE
  /\ latency = 0
  /\ eventCallbacks = NoEntries
  /\ loopBacks = {}
  /\ pings = {}
  /\ draining = FALSE
  /\ seen = {}
  /\ received = [own |-> 0, other |-> 0]
  /\ accepted = <<>>
  /\ handled = <<>>
  /\ lastSentStates = NoEntries
  /\ lastSent = NoEntries
  /\ syncCount = [calls |-> 0, sends |-> 0]

on(eventType, callback) ==
  /\ eventCallbacks' =
       Put(eventCallbacks, eventType,
           Append(IF eventType \in DOMAIN eventCallbacks
                  THEN eventCallbacks[eventType] ELSE <<>>,
                  callback))
  /\ UNCHANGED <<pendingEvents, isConnected, latency, loopBacks, pings,
                 draining, seen, received, accepted, handled,
                 syncVars, beyondNet,
                 otherThanNet>>

\* The calls of receiveEvent so far, by the sender of the event
Counted(event) ==
  IF event.senderId = localPlayerId
  THEN [received EXCEPT !.own = @ + 1]
  ELSE [received EXCEPT !.other = @ + 1]

\* A variant of receiveEvent without the test of the sender
receiveEvent_NoFilter(event) ==
  /\ pendingEvents' = Append(pendingEvents, event)
  /\ received' = Counted(event)
  /\ accepted' = IF isConnected THEN Append(accepted, event) ELSE accepted

receiveEvent(event) ==
  /\ pendingEvents' = IF event.senderId = localPlayerId THEN pendingEvents
                      ELSE Append(pendingEvents, event)
  /\ received' = Counted(event)
  /\ accepted' = IF event.senderId = localPlayerId \/ ~isConnected
                 THEN accepted ELSE Append(accepted, event)

\* transmitEvent, where there is a window: the event comes back through
\* receiveEvent once the latency has passed
transmitEvent(event) ==
  loopBacks' = loopBacks \cup {[event |-> event, due |-> now + latency]}

sendEvent(type, data) ==
  /\ transmitEvent(Envelope(type, localPlayerId, now, data))
  /\ UNCHANGED <<pendingEvents, isConnected, latency, eventCallbacks, pings,
                 draining, seen, received, accepted, handled,
                 syncVars, beyondNet,
                 otherThanNet>>

broadcastTouchEvent(playerId, isTouching, timestamp) ==
  sendEvent(TOUCH_EVENT, TouchData(playerId, isTouching, timestamp))

\* The deferred callback of transmitEvent
LoopBack(t) ==
  /\ now >= t.due
  /\ loopBacks' = loopBacks \ {t}
  /\ receiveEvent(t.event)
  /\ UNCHANGED <<isConnected, latency, eventCallbacks, pings, draining, seen,
                 handled, syncVars, beyondNet, otherThanNet>>

\* An envelope that arrives from the network
Arrival(event) ==
  /\ receiveEvent(event)
  /\ UNCHANGED <<isConnected, latency, eventCallbacks, loopBacks, pings,
                 draining, seen, handled, syncVars, beyondNet,
                 otherThanNet>>

\* measureLatency: the deferred callback measures the time since pingStart
measureLatency == pings' = pings \cup {now}

PingDone(pingStart) ==
  /\ now >= pingStart + PING_DELAY
  /\ latency' = now - pingStart
  /\ pings' = pings \ {pingStart}
  /\ UNCHANGED <<pendingEvents, isConnected, eventCallbacks, loopBacks,
                 draining, seen, received, accepted, handled,
                 syncVars, beyondNet,
                 otherThanNet>>

\* A variant of the lookup that does not go by the type of the event
CallbacksOf_AnyType(event) ==
  IF TOUCH_EVENT \in DOMAIN eventCallbacks THEN eventCallbacks[TOUCH_EVENT]
  ELSE <<>>

\* The callbacks handleNetworkEvent runs for an event, in order
CallbacksOf(event) ==
  IF event.type \in DOMAIN eventCallbacks THEN eventCallbacks[event.type]
  ELSE <<>>

\* A consumer of touch envelopes: the touch of the envelope's player goes
\* through the operations a local touch goes through
applyTouch(event) ==
  IF event.data.isTouching THEN onPlayerTouch(event.data.playerId)
  ELSE onPlayerTouchRelease(event.data.playerId)

\* handleNetworkEvent: every callback registered for the type gets the event
handleNetworkEvent(event) ==
  /\ seen' = IF CallbacksOf(event) = <<>> THEN seen ELSE seen \cup {event}
  /\ handled' = Append(handled, [event |-> event,
                                 callbacks |-> CallbacksOf(event)])
  /\ IF \E i \in 1..Len(CallbacksOf(event)) :
          CallbacksOf(event)[i] = "applyTouch"
     THEN applyTouch(event)
     ELSE UNCHANGED beyondNet

\* One round of the loop of processPendingEvents; measureLatency follows
\* the last one
Drain ==
  /\ pendingEvents' = Tail(pendingEvents)
  /\ handleNetworkEvent(Head(pendingEvents))
  /\ draining' = (Tail(pendingEvents) # <<>>)
  /\ IF Tail(pendingEvents) = <<>> THEN measureLatency ELSE UNCHANGED pings
  /\ UNCHANGED <<isConnected, latency, eventCallbacks, loopBacks, received,
                 accepted, syncVars, otherThanNet>>

\* The tick of the update loop
update ==
  /\ ~draining
  /\ IF ~isConnected
     THEN UNCHANGED <<netVars, beyondNet, otherThanNet>>
     ELSE IF pendingEvents = <<>>
     THEN /\ measureLatency
          /\ UNCHANGED <<pendingEvents, isConnected, latency, eventCallbacks,
                         loopBacks, draining, seen, received, accepted, handled,
                 syncVars, beyondNet,
                 otherThanNet>>
     ELSE Drain

\* update, further into processPendingEvents
updateOn == draining /\ Drain

disconnect ==
  /\ isConnected' = FALSE
  /\ lastSentStates' = NoEntries
  /\ pendingEvents' = <<>>
  /\ UNCHANGED <<latency, eventCallbacks, loopBacks, pings, draining, seen,
                 received, accepted, handled, lastSent, syncCount, beyondNet,
                 otherThanNet>>

\* ------------------------------------------------------------------------
\* PortalManager
\* ------------------------------------------------------------------------
\* A radius, in tenths of a metre, as the fraction num / den
Radius(num, den) == [num |-> num, den |-> den]

PortalInit ==
  /\ currentPortal = Undefined
  /\ isCreatingPortal = FALSE
  /\ portals = <<>>

\* generatePortalId: the time and nine characters of Math.random make an id
\* that no portal has, and that no portal has for its destination; here
\* the ids are numbers, and the new one the next after those in use
generatePortalId ==
  1 + Max({0} \cup {portals[i].id : i \in 1..Len(portals)}
              \cup {Get(portals[i].destinationId) :
                      i \in {j \in 1..Len(portals) :
                               portals[j].destinationId # Undefined}})

\* startPortalCreation: the preview portal has the base radius
startPortalCreation ==
  /\ isCreatingPortal' = TRUE
  /\ currentPortal' =
       Some([id |-> generatePortalId, radius |-> Radius(BASE_RADIUS, 1),
             rotation |-> 0, isActive |-> FALSE, isValid |-> FALSE,
             destinationId |-> Undefined])
  /\ UNCHANGED portals

\* A variant of ClampedRadius that forgets the upper limit
ClampedRadius_NoMax(scale) ==
  IF BASE_RADIUS * scale.num < MIN_RADIUS * scale.den
  THEN Radius(MIN_RADIUS, 1)
  ELSE Radius(BASE_RADIUS * scale.num, scale.den)

\* Math.max(MIN_RADIUS, Math.min(MAX_RADIUS, BASE_RADIUS * scale)), the
\* scale being num / den with den > 0
ClampedRadius(scale) ==
  LET newRadius == Radius(BASE_RADIUS * scale.num, scale.den)
      least == IF MAX_RADIUS * newRadius.den < newRadius.num
               THEN Radius(MAX_RADIUS, 1) ELSE newRadius
  IN  IF MIN_RADIUS * least.den > least.num THEN Radius(MIN_RADIUS, 1)
      ELSE least

\* onPinchGesture: what it leaves of the portal state
PinchedPortal(portal, scale) ==
  IF portal = Undefined THEN portal
  ELSE Some([Get(portal) EXCEPT !.radius = ClampedRadius(scale)])

onPinchGesture(scale) ==
  /\ currentPortal' = PinchedPortal(currentPortal, scale)
  /\ UNCHANGED <<isCreatingPortal, portals>>

\* onRotateGesture
RotatedPortal(portal, angle) ==
  IF portal = Undefined THEN portal
  ELSE Some([Get(portal) EXCEPT !.rotation = angle])

\* activatePortal, once onDoubleTap has found the placement valid
activatePortal ==
  /\ portals' = Append(portals, [Get(currentPortal) EXCEPT
                                   !.isActive = TRUE, !.isValid = TRUE])
  /\ currentPortal' = Undefined
  /\ isCreatingPortal' = FALSE

cancelPortalCreation ==
  IF currentPortal # Undefined
  THEN /\ currentPortal' = Undefined
       /\ isCreatingPortal' = FALSE
       /\ UNCHANGED portals
  ELSE UNCHANGED portalVars

\* linkPortals
linkPortals(portal1Id, portal2Id) ==
  LET k1 == IndexOf(portals, portal1Id)
      k2 == IndexOf(portals, portal2Id)
  IN  /\ portals' =
           IF k1 = 0 \/ k2 = 0 THEN portals
           ELSE [[portals EXCEPT ![k1].destinationId = Some(portal2Id)]
                   EXCEPT ![k2].destinationId = Some(portal1Id)]
      /\ UNCHANGED <<currentPortal, isCreatingPortal>>

\* deletePortal: the link of the portal it leads to is removed, then the
\* portal itself
deletePortal(portalId) ==
  LET k == IndexOf(portals, portalId)
      linked == IF k = 0 \/ portals[k].destinationId = Undefined THEN 0
                ELSE IndexOf(portals, Get(portals[k].destinationId))
      unlinked == IF linked = 0 THEN portals
                  ELSE [portals EXCEPT ![linked].destinationId = Undefined]
  IN  /\ portals' = IF k = 0 THEN portals ELSE MapDelete(unlinked, portalId)
      /\ UNCHANGED <<currentPortal, isCreatingPortal>>

\* ------------------------------------------------------------------------
\* BasePuzzle, MultiTouchPuzzle and PrecisionPortalPlacement
\* ------------------------------------------------------------------------
\* PuzzleState
INACTIVE == "inactive"
ACTIVE == "active"
IN_PROGRESS == "in_progress"
COMPLETED == "completed"
FAILED == "failed"

\* The targets the MultiTouchPuzzle is constructed with: two, 100 apart,
\* of radius 10
InitialTargets ==
  <<[id |-> "t1", position |-> Vec(0, 0), radius |-> 10, isTouched |-> FALSE],
    [id |-> "t2", position |-> Vec(100, 0), radius |-> 10,
     isTouched |-> FALSE]>>

\* After the constructor of BasePuzzle
PuzzleInit ==
  /\ puzzle = [state |-> INACTIVE, progress |-> 0, startTime |-> Undefined,
               completionTime |-> Undefined, attempts |-> 0]
  /\ touchTargets = InitialTargets
  /\ completions = 0
  /\ puzzleCalls = 0

\* What the operations of a puzzle leave alone, but for the listeners that
\* onActivate registers
beyondPuzzle ==
  <<now, inputVars, fingerAngle, collabVars, netVars, portalVars, histories>>

\* BasePuzzle.activate, but for onActivate
Activated(p) ==
  IF p.state # INACTIVE THEN p
  ELSE [p EXCEPT !.state = ACTIVE, !.startTime = Some(now),
                 !.attempts = @ + 1]

\* BasePuzzle.start
start ==
  /\ puzzle' = IF puzzle.state # ACTIVE THEN puzzle
               ELSE [puzzle EXCEPT !.state = IN_PROGRESS]
  /\ UNCHANGED <<touchTargets, completions, puzzleCalls, gestureCallbacks,
                 beyondPuzzle>>

\* BasePuzzle.complete
PuzzleCompleted(p) ==
  IF p.state = COMPLETED THEN p
  ELSE [p EXCEPT !.state = COMPLETED, !.completionTime = Some(now),
                 !.progress = 100]

\* BasePuzzle.updateProgress: the progress is clamped, and complete is
\* called at 100
ProgressUpdated(p, progress) ==
  LET clamped == IF progress > 100 THEN 100
                 ELSE IF progress < 0 THEN 0 ELSE progress
      updated == [p EXCEPT !.progress = clamped]
  IN  IF clamped >= 100 THEN PuzzleCompleted(updated) ELSE updated

\* BasePuzzle.fail
Failed(p) == IF p.state = FAILED THEN p ELSE [p EXCEPT !.state = FAILED]

\* The completion callbacks the step from one puzzle to the next has run
CompletionsOf(before, after) ==
  IF before.state # COMPLETED /\ after.state = COMPLETED THEN 1 ELSE 0

\* BasePuzzle.reset, with onReset of either puzzle
reset ==
  /\ puzzle' = [puzzle EXCEPT !.state = INACTIVE, !.progress = 0,
                              !.startTime = Undefined,
                              !.completionTime = Undefined]
  /\ touchTargets' =
       [i \in 1..Len(touchTargets) |->
          [touchTargets[i] EXCEPT !.isTouched = FALSE]]
  /\ UNCHANGED <<completions, puzzleCalls, gestureCallbacks, beyondPuzzle>>

\* MultiTouchPuzzle.activate: onActivate resets the targets and registers
\* the listeners of TAP and LONG_PRESS
MultiTouchPuzzle_activate ==
  /\ puzzle' = Activated(puzzle)
  /\ completions' = IF puzzle.state = INACTIVE THEN 0 ELSE completions
  /\ IF puzzle.state # INACTIVE
     THEN UNCHANGED <<touchTargets, gestureCallbacks>>
     ELSE /\ touchTargets' =
               [i \in 1..Len(touchTargets) |->
                  [touchTargets[i] EXCEPT !.isTouched = FALSE]]
          /\ gestureCallbacks' =
               LET listeners(type) ==
                     IF type \in DOMAIN gestureCallbacks
                     THEN gestureCallbacks[type] ELSE <<>>
                   withTap ==
                     Put(gestureCallbacks, "tap",
                         Append(listeners("tap"),
                                [name |-> "onTap", throws |-> FALSE]))
               IN  Put(withTap, "long_press",
                       Append(listeners("long_press"),
                              [name |-> "onLongPress", throws |-> FALSE]))
  /\ UNCHANGED <<puzzleCalls, beyondPuzzle>>

\* BasePuzzle.prototype.constructor.name, which onTap compares the state to
ConstructorName == "BasePuzzle"

\* findTargetAtPosition: the index of the first target the position is
\* within the radius of, 0 if there is none
findTargetAtPosition(position) ==
  LET hit == {i \in 1..Len(touchTargets) :
                distance(position, touchTargets[i].position)
                  <= touchTargets[i].radius}
  IN  IF hit = {} THEN 0 ELSE Min(hit)

\* touchTarget and checkCompletion: the targets and the puzzle they leave
TargetTouched(k) ==
  LET targets == [touchTargets EXCEPT ![k].isTouched = TRUE]
      touchedCount == Cardinality({i \in 1..Len(targets) : targets[i].isTouched})
      totalCount == Len(targets)
  IN  [targets |-> targets,
       puzzle |-> ProgressUpdated(puzzle, (touchedCount * 100) \div totalCount)]

\* MultiTouchPuzzle.onTap: the targets and the puzzle it leaves
onTap(position) ==
  LET k == findTargetAtPosition(position)
  IN  IF puzzle.state # ConstructorName \/ k = 0 \/ touchTargets[k].isTouched
      THEN [targets |-> touchTargets, puzzle |-> puzzle]
      ELSE TargetTouched(k)

\* The InputController emits a TAP at the position: the listeners that
\* the activations have registered run, each as the one before it
TapOnPuzzle(position) ==
  LET registered == "tap" \in DOMAIN gestureCallbacks
      after == IF registered THEN onTap(position)
               ELSE [targets |-> touchTargets, puzzle |-> puzzle]
  IN  /\ touchTargets' = after.targets
      /\ puzzle' = after.puzzle
      /\ completions' = completions + CompletionsOf(puzzle, after.puzzle)
      /\ puzzleCalls' = puzzleCalls + 1
      /\ UNCHANGED <<gestureCallbacks, beyondPuzzle>>

\* PrecisionPortalPlacement: the target is at (200, 300, 100), the tolerance
\* 5; onActivate registers nothing
targetPosition == Vec3(200, 300, 100)
tolerance == 5

PrecisionPortalPlacement_activate ==
  /\ puzzle' = Activated(puzzle)
  /\ completions' = IF puzzle.state = INACTIVE THEN 0 ELSE completions
  /\ UNCHANGED <<touchTargets, puzzleCalls, gestureCallbacks, beyondPuzzle>>

\* checkPortalPlacement: 100 within the tolerance, and beyond it
\* max(0, 100 - (distance / tolerance) * 20)
checkPortalPlacement(position) ==
  LET d == distance3(position, targetPosition)
      proximity == IF 100 - (d * 20) \div tolerance < 0 THEN 0
                   ELSE 100 - (d * 20) \div tolerance
      after == ProgressUpdated(puzzle, IF d <= tolerance THEN 100
                                       ELSE proximity)
  IN  /\ puzzle' = after
      /\ completions' = completions + CompletionsOf(puzzle, after)
      /\ puzzleCalls' = puzzleCalls + 1
      /\ UNCHANGED <<touchTargets, gestureCallbacks, beyondPuzzle>>

Init ==
  /\ now = StartTime
  /\ InputInit
  /\ fingerAngle = 0
  /\ CollabInit
  /\ NetInit
  /\ gestureCallbacks = <<>>
  /\ PortalInit
  /\ disposed = FALSE
  /\ failedAttempts = {}
  /\ ignoredCalls = {}
  /\ lifecycleLog = <<>>
  /\ PuzzleInit

\* The touch events of a session of at most maxContacts contacts and
\* maxMoves touch moves, with the given touch identifiers and positions
InputEvents(ids, positions, maxContacts, maxMoves) ==
  \/ \E id \in ids, position \in positions :
        /\ nextContact <= maxContacts /\ onTouchStart(id, position)
        /\ UNCHANGED <<portalVars, histories>>
  \/ \E id \in ids, position \in positions :
        /\ moves < maxMoves /\ onTouchMove(id, position)
        /\ UNCHANGED <<portalVars, histories>>
  \/ \E id \in ids : onTouchEnd(id) /\ UNCHANGED <<portalVars, histories>>
  \/ \E id \in ids : onTouchCancel(id) /\ UNCHANGED <<portalVars, histories>>

\* The deferred callbacks whose delay has elapsed
InputTimers ==
  \E t \in timers : TimerFire(t) /\ UNCHANGED <<portalVars, histories>>

\* Taps, double taps and long presses of one finger
TapNext ==
  \/ InputEvents(TapTouchIds, TapPositions, MaxTapContacts, MaxTapMoves)
  \/ InputTimers
  \/ Tick(TapTimeStep, MaxTapTicks)

SpecTap == Init /\ [][TapNext]_vars

\* ------------------------------------------------------------------------
\* Taps and double taps
\* ------------------------------------------------------------------------
\* The contact of the i-th call of recognizeTap
TapContact(i) == taps[i].contact

\* The taps that open a pair: not themselves the second tap of a pair, and
\* followed by a tap within the double-tap interval and distance of them
PairStarts ==
  {i \in 1..(Len(taps) - 1) : ~taps[i].near /\ taps[i + 1].near}

\* C1: two consecutive qualifying taps, the second within 300 ms and 30 px
\* of the first, produce exactly one DOUBLE_TAP (carrying the second) and no
\* TAP for either of them, whenever the deferred callback of the first runs.
C1_PairIsOneDoubleTap ==
  \A i \in PairStarts :
    /\ doubleTapEvents[TapContact(i + 1)] = 1
    /\ doubleTapEvents[TapContact(i)] = 0
    /\ tapEvents[TapContact(i)] = 0
    /\ tapEvents[TapContact(i + 1)] = 0

\* The taps that stay single: not the second tap of a pair, and no other
\* tap ends within the double-tap interval after them
SingleTaps ==
  {i \in 1..Len(taps) :
     /\ ~taps[i].near
     /\ i < Len(taps) => ~taps[i + 1].soon}

\* C2: a single tap with no other tap within 300 ms produces exactly one
\* TAP, emitted when its deferred callback runs and never at touch end.
C2_SingleTapIsOneTap ==
  \A i \in SingleTaps :
    IF TapContact(i) \in fired THEN tapEvents[TapContact(i)] = 1
    ELSE tapEvents[TapContact(i)] = 0

\* C3: a contact yields at most one TAP or DOUBLE_TAP, at most one
\* LONG_PRESS, and never both a tap-class event and a LONG_PRESS.
C3_OneDiscreteGesturePerContact ==
  \A c \in Contacts :
    /\ tapEvents[c] + doubleTapEvents[c] <= 1
    /\ longPressEvents[c] <= 1
    /\ tapEvents[c] + doubleTapEvents[c] + longPressEvents[c] <= 1

\* A TAP of one contact, and a LONG_PRESS of another, have been emitted
C3_Witness ==
  \E c, d \in Contacts : tapEvents[c] = 1 /\ longPressEvents[d] = 1

\* C4: once a qualifying second tap has arrived and DOUBLE_TAP was emitted,
\* no TAP carrying the first tap of the pair is ever emitted, a third tap
\* inside the interval included.
C4_NoTapAfterDoubleTap ==
  \A i \in 1..(Len(taps) - 1) :
    taps[i].timer /\ taps[i + 1].double => tapEvents[TapContact(i)] = 0

\* Two-finger gestures, within one instant (no delay elapses)
PinchNext ==
  InputEvents(PinchTouchIds, PinchPositions, MaxPinchContacts, MaxPinchMoves)

SpecPinch == Init /\ [][PinchNext]_vars

\* ------------------------------------------------------------------------
\* Pinch and zoom
\* ------------------------------------------------------------------------
HasEvent(evs, type) == \E i \in 1..Len(evs) : evs[i].type = type

\* C5: on a touch move with two active touches and a baseline D > 0, the
\* current distance being D2: PINCH is emitted iff D2 < D and |D - D2| > 10,
\* ZOOM iff D2 > D and |D - D2| > 10, neither otherwise; the event's scale
\* is D2 / D and its position the midpoint of the two touches.
C5_PinchOrZoom ==
  [][(moves' = moves + 1 /\ Len(touchPoints) = 2 /\ initialPinchDistance > 0)
     => LET D == initialPinchDistance
            a == touchPoints'[1].position
            b == touchPoints'[2].position
            D2 == distance(a, b)
            far == Abs(D - D2) > 10
        IN  /\ HasEvent(emitted', "pinch") <=> (D2 < D /\ far)
            /\ HasEvent(emitted', "zoom") <=> (D2 > D /\ far)
            /\ \A i \in 1..Len(emitted') :
                 emitted'[i].type \in {"pinch", "zoom"} =>
                   /\ emitted'[i].scale.num * D = emitted'[i].scale.den * D2
                   /\ emitted'[i].scale.den > 0
                   /\ 2 * emitted'[i].position.x = a.x + b.x
                   /\ 2 * emitted'[i].position.y = a.y + b.y
                   /\ \A j \in 1..Len(emitted') :
                        emitted'[j].type \in {"pinch", "zoom"} => j = i
    ]_vars

\* A touch move of two touches has just emitted PINCH
C5_Witness ==
  /\ moves > 0
  /\ Len(touchPoints) = 2
  /\ initialPinchDistance > 0
  /\ HasEvent(emitted, "pinch")

\* ------------------------------------------------------------------------
\* Rotation deltas
\* ------------------------------------------------------------------------
\* The two-finger angles of the sessions of SpecRotate, in degrees
Angles == {a \in (-180)..180 : a % AngleStep = 0}

\* A second finger lands, the two at the given angle:
\* initializeRotationGesture takes it for the baseline
RotateStart(angle) ==
  /\ initialRotationAngle' = angle
  /\ fingerAngle' = angle
  /\ emitted' = <<>>
  /\ invoked' = <<>>
  /\ UNCHANGED <<now, touchPoints, lastTapTime, lastTapPosition, tapCount,
                 initialPinchDistance, timers, nextContact, moves, taps,
                 prevTap, fired, tapEvents, doubleTapEvents, longPressEvents,
                 collabVars, otherSystems, portalVars, histories>>

\* The fingers turn to the given angle: recognizeRotationGesture reads it
RotateMove(angle) ==
  /\ fingerAngle' = angle
  /\ emitted' = RotationEvents(initialRotationAngle, angle, <<>>, Vec(0, 0))
  /\ invoked' =
       Emit(RotationEvents(initialRotationAngle, angle, <<>>, Vec(0, 0))).invoked
  /\ UNCHANGED <<now, touchPoints, lastTapTime, lastTapPosition, tapCount,
                 initialPinchDistance, initialRotationAngle, timers,
                 nextContact, moves, taps, prevTap, fired, tapEvents,
                 doubleTapEvents, longPressEvents, collabVars, otherSystems,
                 portalVars, histories>>

RotateNext ==
  \/ \E angle \in Angles : RotateStart(angle)
  \/ \E angle \in Angles : RotateMove(angle)

SpecRotate == Init /\ [][RotateNext]_vars

\* The deltas of the ROTATE events just emitted
RotateDeltas ==
  {emitted[i].rotation : i \in {k \in 1..Len(emitted) :
                                   emitted[k].type = "rotate"}}

PlayerIds == {"p1", "p2"}
\* Players stand 5 or 6 away from the challenge: inside the proximity
\* radius, on its boundary, and outside it
PlayerPositions == {Vec3(5, 0, 0), Vec3(6, 0, 0)}
ChallengePositions == {Vec3(0, 0, 0)}
ChallengeTypes == {"synchronized_touch", "energy_relay"}
RequiredPlayers == {1, 2, 3}

\* The Player record GameController.registerLocalPlayer registers
NewPlayer(id, position) ==
  [id |-> id, position |-> position, isTouching |-> FALSE,
   touchTimestamp |-> Undefined]

\* A session creates one challenge at a place
NoChallengeAt(position) ==
  \A i \in 1..Len(challenges) : challenges[i].position # position

\* Synchronized touches: players come and go, challenges are created and
\* activated by proximity, players touch and release
SyncNext ==
  \/ /\ UNCHANGED <<otherSystems, portalVars, histories>>
     /\ \E id \in PlayerIds, position \in PlayerPositions :
             registerPlayer(NewPlayer(id, position))
  \/ /\ UNCHANGED <<otherSystems, portalVars, histories>>
     /\ \E id \in PlayerIds : unregisterPlayer(id)
  \/ /\ UNCHANGED <<otherSystems, portalVars, histories>>
     /\ \E type \in ChallengeTypes, position \in ChallengePositions,
             requiredPlayers \in RequiredPlayers :
             NoChallengeAt(position)
               /\ createChallenge(type, position, requiredPlayers)
  \/ /\ UNCHANGED <<otherSystems, portalVars, histories>>
     /\ updatePlayerProximity
  \/ /\ UNCHANGED <<otherSystems, portalVars, histories>>
     /\ \E id \in PlayerIds : onPlayerTouch(id)
  \/ /\ UNCHANGED <<otherSystems, portalVars, histories>>
     /\ \E id \in PlayerIds : onPlayerTouchRelease(id)
  \/ Tick(SyncTimeStep, MaxSyncTicks)

SpecSync == Init /\ [][SyncNext]_vars

\* ------------------------------------------------------------------------
\* Synchronized touches
\* ------------------------------------------------------------------------
\* The participants of a challenge with a touch timestamp in touches
Touching(challenge, touches) == challenge.participants \cap DOMAIN touches

Skew(playerIds, touches) ==
  Max({touches[p] : p \in playerIds}) - Min({touches[p] : p \in playerIds})

\* C7: on each onPlayerTouch call (of a registered player: a call naming
\* any other is ignored), an active, not completed SYNCHRONIZED_TOUCH
\* challenge with requiredPlayers >= 2 is completed in that call iff its
\* participants with a recorded touch timestamp number at least
\* requiredPlayers and the spread of their timestamps is at most 500 ms.
C7_SynchronizedTouchCompletion ==
  [][\A id \in DOMAIN activePlayers :
       onPlayerTouch(id) =>
         \A i \in 1..Len(challenges) :
           (/\ challenges[i].type = "synchronized_touch"
            /\ challenges[i].isActive
            /\ ~challenges[i].isCompleted
            /\ challenges[i].requiredPlayers >= 2)
           => (challenges'[i].isCompleted
                 <=> LET touching == Touching(challenges[i], playerTouches')
                     IN  /\ Cardinality(touching)
                              >= challenges[i].requiredPlayers
                         /\ Skew(touching, playerTouches') <= 500)
    ]_vars

\* A touch has just completed a challenge of two players whose touches lie
\* exactly 500 ms apart
C7_Witness ==
  \E i \in 1..Len(challenges) :
    /\ challenges[i].type = "synchronized_touch"
    /\ challenges[i].requiredPlayers = 2
    /\ challenges[i].isCompleted
    /\ \E k \in 1..Len(effects) :
         effects[k].kind = "sendTo" /\ effects[k].event = "challenge_completed"
    /\ Cardinality(Touching(challenges[i], playerTouches)) = 2
    /\ Skew(Touching(challenges[i], playerTouches), playerTouches) = 500

\* ------------------------------------------------------------------------
\* Players who left
\* ------------------------------------------------------------------------
\* An effect names player p: it is sent to p, or it is about p
Names(effect, p) ==
  IF effect.kind \in {"sendTo", "haptic"} THEN p \in effect.to
  ELSE IF effect.kind = "broadcast" THEN effect.subject = p
  ELSE FALSE

RelayNext ==
  \/ /\ UNCHANGED <<otherSystems, portalVars, histories>>
     /\ \E id \in PlayerIds : registerPlayer(NewPlayer(id, Vec3(0, 0, 0)))
  \/ /\ UNCHANGED <<otherSystems, portalVars, histories>>
     /\ \E id \in PlayerIds : unregisterPlayer(id)
  \/ /\ UNCHANGED <<otherSystems, portalVars, histories>>
     /\ \E id \in PlayerIds : onPlayerTouch(id)
  \/ /\ UNCHANGED <<otherSystems, portalVars, histories>>
     /\ \E id \in PlayerIds : onPlayerTouchRelease(id)
  \/ /\ UNCHANGED <<otherSystems, portalVars, histories>>
     /\ \E from \in PlayerIds, to \in PlayerIds :
             Len(relayChain) < MaxRelays /\ initiateEnergyRelay(from, to)
  \/ /\ UNCHANGED <<otherSystems, portalVars, histories>>
     /\ resetRelayChain
  \/ Tick(RelayTimeStep, MaxRelayTicks)

SpecRelay == Init /\ [][RelayNext]_vars

\* ------------------------------------------------------------------------
\* Energy relays
\* ------------------------------------------------------------------------
\* A step that is a hand-off: initiateEnergyRelay between registered players
HandOff == Len(relayChain') = Len(relayChain) + 1

\* The timing the hand-off of this step was given
HandOffTiming == relayLog'[Len(relayLog')].timing

\* The time of the last hand-off of the chain
LastHandOffTime == relayLog[Len(relayLog)].timestamp

\* C8: the first hand-off of an empty chain is GOOD and leaves the
\* multiplier at 1.0; a later hand-off, delta after the hand-off before it,
\* is PERFECT and adds 0.5 when delta < 100, GOOD and changes nothing when
\* 100 <= delta < 300, MISS and sets the multiplier to 1.0 when
\* delta >= 300.
C8_RelayScoring ==
  [][HandOff =>
       IF relayChain = <<>>
       THEN /\ HandOffTiming = "good"
            /\ relayMultiplier = 10
            /\ relayMultiplier' = 10
       ELSE LET delta == now - LastHandOffTime
            IN  IF delta < 100
                THEN /\ HandOffTiming = "perfect"
                     /\ relayMultiplier' = relayMultiplier + 5
                ELSE IF delta < 300
                THEN /\ HandOffTiming = "good"
                     /\ relayMultiplier' = relayMultiplier
                ELSE /\ HandOffTiming = "miss"
                     /\ relayMultiplier' = 10
    ]_vars

\* C9: every hand-off after the first of a chain is classified by its time
\* minus the time of the hand-off before it, whatever touches and releases
\* of the previous receiver came between the two.
C9_DeltaFromPreviousHandOff ==
  \A i \in 2..Len(relayLog) :
    LET delta == relayLog[i].timestamp - relayLog[i - 1].timestamp
    IN  relayLog[i].timing = IF delta < 100 THEN "perfect"
                             ELSE IF delta < 300 THEN "good"
                             ELSE "miss"

\* C10: the multiplier is at least 1.0 in every state, and an operation
\* lowers it only when it is a hand-off classified MISS or
\* resetRelayChain, and then to exactly 1.0.
C10_MultiplierFloorAndResets ==
  [][/\ relayMultiplier >= 10
     /\ relayMultiplier' >= 10
     /\ relayMultiplier' < relayMultiplier
          => /\ relayMultiplier' = 10
             /\ (HandOff /\ HandOffTiming = "miss") \/ resetRelayChain
    ]_vars

\* A hand-off classified MISS has just taken the multiplier from 1.5 to 1.0
C10_Witness ==
  /\ Len(relayLog) >= 3
  /\ relayLog[Len(relayLog)].timing = "miss"
  /\ relayLog[Len(relayLog) - 1].timing = "perfect"
  /\ relayLog[Len(relayLog) - 2].timing = "good"
  /\ relayMultiplier = 10
  /\ \E k \in 1..Len(effects) : effects[k].kind = "haptic"

\* ------------------------------------------------------------------------
\* Touches that arrive over the network
\* ------------------------------------------------------------------------
\* The callbacks of a session: the touch consumer and one that only listens
Callbacks == {"applyTouch", "listen"}

\* The envelope broadcastTouchEvent makes at the sender
TouchEnvelope(sender, isTouching, timestamp) ==
  Envelope(TOUCH_EVENT, sender, timestamp,
           TouchData(sender, isTouching, timestamp))

\* The envelopes the network hands over: one of each player, the local
\* player's among them
Arrivals == {TouchEnvelope(sender, TRUE, StartTime) : sender \in PlayerIds}

\* Whether the callback is registered for touch envelopes
Registered(callback) ==
  \E i \in 1..Len(CallbacksOf([type |-> TOUCH_EVENT])) :
     CallbacksOf([type |-> TOUCH_EVENT])[i] = callback

\* The NetworkManager of the local player: callbacks are registered,
\* envelopes arrive, are sent and come back, the update loop ticks
NetNext ==
  \/ \E callback \in Callbacks :
        ~draining /\ ~Registered(callback) /\ on(TOUCH_EVENT, callback)
  \/ /\ ~draining
     /\ received.own + received.other + Cardinality(loopBacks) < MaxReceives
     /\ broadcastTouchEvent(localPlayerId, TRUE, now)
  \/ \E t \in loopBacks : ~draining /\ LoopBack(t)
  \/ \E event \in Arrivals :
        /\ ~draining
        /\ received.own + received.other < MaxReceives
        /\ Arrival(event)
  \/ \E pingStart \in pings : ~draining /\ PingDone(pingStart)
  \/ update
  \/ updateOn
  \/ ~draining /\ disconnect
  \/ ~draining /\ Tick(NetTimeStep, MaxNetTicks)

SpecNet == Init /\ [][NetNext]_vars

\* The touch envelopes of the other player, stamped at an instant up to now
RemoteTouches ==
  {TouchEnvelope(sender, isTouching, StartTime + k * NetTimeStep) :
     sender \in PlayerIds \ {localPlayerId}, isTouching \in BOOLEAN,
     k \in 0..((now - StartTime) \div NetTimeStep)}

\* Two players at a two-player challenge: the touches of the local player
\* come from the device, those of the other player in envelopes that the
\* touch consumer gets
RemoteNext ==
  \/ /\ ~draining /\ UNCHANGED <<otherSystems, portalVars, histories>>
     /\ \E id \in PlayerIds : registerPlayer(NewPlayer(id, Vec3(0, 0, 0)))
  \/ /\ ~draining /\ UNCHANGED <<otherSystems, portalVars, histories>>
     /\ NoChallengeAt(Vec3(0, 0, 0))
     /\ createChallenge("synchronized_touch", Vec3(0, 0, 0), 2)
  \/ /\ ~draining /\ UNCHANGED <<otherSystems, portalVars, histories>>
     /\ updatePlayerProximity
  \/ /\ ~draining /\ UNCHANGED <<otherSystems, portalVars, histories>>
     /\ onPlayerTouch(localPlayerId)
  \/ ~draining /\ ~Registered("applyTouch") /\ on(TOUCH_EVENT, "applyTouch")
  \/ \E event \in RemoteTouches :
        /\ ~draining
        /\ received.other < MaxRemoteReceives
        /\ Arrival(event)
  \/ \E pingStart \in pings : ~draining /\ PingDone(pingStart)
  \/ update
  \/ updateOn
  \/ ~draining /\ Tick(NetTimeStep, MaxRemoteTicks)

SpecRemote == Init /\ [][RemoteNext]_vars

\* Whether handleNetworkEvent hands the event to the touch consumer
Consumed(event) ==
  \E i \in 1..Len(CallbacksOf(event)) : CallbacksOf(event)[i] = "applyTouch"

\* The state synchronized touches and relays are decided from
CountedState == <<playerTouches, challenges, relayChain, relayMultiplier>>

\* C12: delivering an envelope that was delivered before (same sender, same
\* timestamp, same payload) leaves the synchronized-touch and relay state as
\* it was after the first delivery: while the touch that the first delivery
\* recorded stands, the second delivery changes nothing.
C12_DuplicateDeliveryIsIdempotent ==
  [][(/\ pendingEvents # <<>>
      /\ Drain
      /\ Head(pendingEvents) \in seen
      /\ Consumed(Head(pendingEvents))
      /\ Head(pendingEvents).data.isTouching
      /\ Head(pendingEvents).data.playerId \in DOMAIN playerTouches)
     => UNCHANGED CountedState]_vars

C18_TouchKeepsOriginationTime ==
  [][(/\ pendingEvents # <<>>
      /\ Drain
      /\ Consumed(Head(pendingEvents))
      /\ Head(pendingEvents).data.isTouching
      /\ Head(pendingEvents).data.playerId \in DOMAIN activePlayers)
     => LET event == Head(pendingEvents)
        IN  /\ event.data.playerId \in DOMAIN playerTouches'
            /\ playerTouches'[event.data.playerId] = event.timestamp]_vars

\* ------------------------------------------------------------------------
\* The lifecycle of a challenge
\* ------------------------------------------------------------------------
Proposed(challenge) == ~challenge.isActive /\ ~challenge.isCompleted
Active(challenge) == challenge.isActive /\ ~challenge.isCompleted
Completed(challenge) == ~challenge.isActive /\ challenge.isCompleted

\* C14: a challenge is Proposed, Active or Completed, never active and
\* completed at once; every step leaves it where it is or moves it forward,
\* from Proposed to Active or from Active to Completed; nothing leaves
\* Completed, nothing goes back to Proposed, nothing skips Active.
C14_LifecycleMovesForward ==
  [][/\ Len(challenges') >= Len(challenges)
     /\ \A i \in 1..Len(challenges') :
          Proposed(challenges'[i]) \/ Active(challenges'[i])
            \/ Completed(challenges'[i])
     /\ \A i \in 1..Len(challenges) :
          /\ Proposed(challenges'[i]) => Proposed(challenges[i])
          /\ Active(challenges[i]) => ~Proposed(challenges'[i])
          /\ Completed(challenges[i]) => Completed(challenges'[i])
          /\ Completed(challenges'[i]) =>
               Active(challenges[i]) \/ Completed(challenges[i])
    ]_vars

\* A challenge that was activated and completed, with enough players near it
\* and touching for an activation or a completion, had it not been terminal
C14_Witness ==
  \E i \in 1..Len(challenges) :
    /\ Completed(challenges[i])
    /\ challenges[i].startTime # Undefined
    /\ Cardinality(NearbyPlayers(challenges[i])) >= challenges[i].requiredPlayers
    /\ NearbyPlayers(challenges[i]) \subseteq DOMAIN playerTouches
    /\ now > Get(challenges[i].startTime)

\* C15: once a challenge is completed, no operation changes its participant
\* set.
C15_CompletedParticipantsFrozen ==
  [][\A i \in 1..Len(challenges) :
       challenges[i].isCompleted =>
         challenges'[i].participants = challenges[i].participants]_vars

\* ------------------------------------------------------------------------
\* Proximity ticks
\* ------------------------------------------------------------------------
\* The registered players no farther from the challenge than its radius
WithinRadius(challenge) ==
  {p \in DOMAIN activePlayers :
     LET a == activePlayers[p].position
         b == challenge.position
     IN  (a.x - b.x) * (a.x - b.x) + (a.y - b.y) * (a.y - b.y)
           + (a.z - b.z) * (a.z - b.z)
           <= challenge.proximityRadius * challenge.proximityRadius}

\* C16: updatePlayerProximity leaves every challenge that is not completed
\* with exactly the registered players within its radius as participants,
\* whoever was a participant before, and a Proposed challenge is Active
\* after the tick exactly when these are at least requiredPlayers.
C16_ParticipantsRecomputed ==
  [][updatePlayerProximity =>
       \A i \in 1..Len(challenges) :
         ~challenges[i].isCompleted =>
           /\ challenges'[i].participants = WithinRadius(challenges[i])
           /\ Proposed(challenges[i]) =>
                (Active(challenges'[i]) <=>
                   Cardinality(WithinRadius(challenges[i]))
                     >= challenges[i].requiredPlayers)
    ]_vars

\* After a tick: a challenge that two players activated, one of them on the
\* boundary of the radius, is left with that one, the other being registered
\* outside the radius by now
C16_Witness ==
  \E i \in 1..Len(challenges) :
    /\ Active(challenges[i])
    /\ challenges[i].requiredPlayers = 2
    /\ DOMAIN activePlayers = PlayerIds
    /\ \E p \in PlayerIds :
         /\ challenges[i].participants = {p}
         /\ distance3(activePlayers[p].position, challenges[i].position)
              = challenges[i].proximityRadius
         /\ WithinRadius(challenges[i]) = {p}

\* ------------------------------------------------------------------------
\* Gesture callbacks
\* ------------------------------------------------------------------------
\* InputController.on
InputController_on(gestureType, callback) ==
  /\ gestureCallbacks' =
       Put(gestureCallbacks, gestureType,
           Append(IF gestureType \in DOMAIN gestureCallbacks
                  THEN gestureCallbacks[gestureType] ELSE <<>>,
                  callback))
  /\ UNCHANGED <<now, inputVars, fingerAngle, collabVars, netVars, portalVars,
                 histories, puzzleVars>>

\* Two callbacks: one returns, the other throws
GestureCallbacks ==
  {[name |-> "steady", throws |-> FALSE], [name |-> "faulty", throws |-> TRUE]}

\* The gestures onTouchEnd emits before it returns
EndGestures == {"double_tap", "long_press"}

\* One finger taps and presses; callbacks are registered for the gestures
\* that touch end emits, each at most once for a gesture. A touch point that
\* an exception left behind can end again: the session stops short of
\* counting such ends without bound
DispatchNext ==
  \/ \E gestureType \in EndGestures, callback \in GestureCallbacks :
        /\ \A i \in 1..Len(callbacksFor([type |-> gestureType])) :
              callbacksFor([type |-> gestureType])[i] # callback
        /\ InputController_on(gestureType, callback)
  \/ /\ Len(taps) <= MaxDispatchContacts
     /\ \A c \in Contacts : longPressEvents[c] <= 1
     /\ InputEvents(TapTouchIds, TapPositions, MaxDispatchContacts,
                    MaxDispatchMoves)
  \/ InputTimers
  \/ Tick(DispatchTimeStep, MaxDispatchTicks)

SpecDispatch == Init /\ [][DispatchNext]_vars

\* The callbacks registered for the type of the event, in the order of
\* registration, each with the event
AllCallbacks(event) ==
  [j \in 1..Len(callbacksFor(event)) |->
     [callback |-> callbacksFor(event)[j].name, event |-> event]]

\* C17: when the touch of a tracked finger ends, every event the handler
\* emits is given to all the callbacks registered for its type, in the order
\* of registration, whether or not one of them throws, and the handler still
\* removes the touch point.
C17_CallbacksIsolated ==
  [][\A id \in TapTouchIds :
       (IndexOf(touchPoints, id) # 0 /\ onTouchEnd(id)) =>
         /\ IndexOf(touchPoints', id) = 0
         /\ Len(invoked') = Len(emitted')
         /\ \A i \in 1..Len(emitted') :
              invoked'[i] = AllCallbacks(emitted'[i])
    ]_vars

\* ------------------------------------------------------------------------
\* GameController: the gestures it forwards to PortalManager
\* ------------------------------------------------------------------------
Handler(name) == [name |-> name, throws |-> FALSE]

\* setupInputHandlers: the callbacks it registers, by gesture type
setupInputHandlers ==
  /\ gestureCallbacks' =
       [pinch |-> <<Handler("scalePortal")>>,
        rotate |-> <<Handler("orientPortal")>>,
        swipe |-> <<Handler("paintPortal")>>,
        double_tap |-> <<Handler("activatePortal")>>,
        long_press |-> <<Handler("startPortal")>>,
        tap |-> <<Handler("collectEnergy"), Handler("collabTouch")>>]
  /\ UNCHANGED <<now, inputVars, fingerAngle, collabVars, netVars, portalVars,
                 histories, puzzleVars>>

\* The events the callback of that name was run with, by the last handler
HandedTo(name, runs) ==
  UNION {{runs[i][j].event :
            j \in {k \in DOMAIN runs[i] : runs[i][k].callback = name}} :
         i \in DOMAIN runs}

\* The touch move of a finger, with the callbacks of GameController: the
\* PINCH callback passes a scale that is not 0 to onPinchGesture, the ROTATE
\* callback a rotation that is not 0 to onRotateGesture, both only while a
\* portal is being created
GameTouchMove(id, position) ==
  /\ onTouchMove(id, position)
  /\ LET scaled == {e \in HandedTo("scalePortal", invoked') : e.scale.num # 0}
         turned == {e \in HandedTo("orientPortal", invoked') : e.rotation # 0}
         pinched == IF isCreatingPortal /\ scaled # {}
                    THEN PinchedPortal(currentPortal,
                                       (CHOOSE e \in scaled : TRUE).scale)
                    ELSE currentPortal
     IN  currentPortal' =
           IF isCreatingPortal /\ turned # {}
           THEN RotatedPortal(pinched, (CHOOSE e \in turned : TRUE).rotation)
           ELSE pinched
  /\ UNCHANGED <<isCreatingPortal, portals>>

\* The scales of direct calls of onPinchGesture: from 1/8 up
Scales == {[num |-> n, den |-> d] : n \in 1..MaxScaleNum, d \in {1, 2, 8}}

\* A portal is created, scaled by two fingers or by calls of onPinchGesture,
\* activated or cancelled; the fingers move within one instant
PortalNext ==
  \/ gestureCallbacks = <<>> /\ setupInputHandlers
  \/ /\ ~isCreatingPortal
     /\ Len(portals) < MaxPortals
     /\ startPortalCreation
     /\ UNCHANGED <<now, inputVars, fingerAngle, collabVars, otherSystems,
                    histories>>
  \/ /\ currentPortal # Undefined
     /\ activatePortal
     /\ UNCHANGED <<now, inputVars, fingerAngle, collabVars, otherSystems,
                    histories>>
  \/ /\ cancelPortalCreation
     /\ UNCHANGED <<now, inputVars, fingerAngle, collabVars, otherSystems,
                    histories>>
  \/ \E scale \in Scales :
        /\ onPinchGesture(scale)
        /\ UNCHANGED <<now, inputVars, fingerAngle, collabVars, otherSystems,
                       histories>>
  \/ \E id \in PinchTouchIds, position \in PinchPositions :
        /\ gestureCallbacks # <<>>
        /\ nextContact <= MaxPortalContacts
        /\ onTouchStart(id, position)
        /\ UNCHANGED <<portalVars, histories>>
  \/ \E id \in PinchTouchIds, position \in PinchPositions :
        /\ gestureCallbacks # <<>>
        /\ moves < MaxPortalMoves
        /\ GameTouchMove(id, position)
        /\ UNCHANGED histories
  \/ \E id \in PinchTouchIds :
        /\ gestureCallbacks # <<>>
        /\ onTouchCancel(id)
        /\ UNCHANGED <<portalVars, histories>>

SpecPortal == Init /\ [][PortalNext]_vars

\* ------------------------------------------------------------------------
\* The radius of the portal being created
\* ------------------------------------------------------------------------
\* min(5.0, max(0.5, 2.0 * scale)) in tenths of a metre, as a fraction
ExpectedRadius(scale) ==
  IF 20 * scale.num <= 5 * scale.den THEN [num |-> 5, den |-> 1]
  ELSE IF 20 * scale.num >= 50 * scale.den THEN [num |-> 50, den |-> 1]
  ELSE [num |-> 20 * scale.num, den |-> scale.den]

SameRadius(a, b) == a.num * b.den = b.num * a.den

\* C19: the radius of the portal being created is never below 0.5 nor above
\* 5.0, and a call of onPinchGesture with a positive scale leaves it at
\* min(5.0, max(0.5, 2.0 * scale)).
C19_RadiusClamped ==
  [][/\ currentPortal' # Undefined =>
          LET radius == Get(currentPortal').radius
          IN  /\ 5 * radius.den <= radius.num
              /\ radius.num <= 50 * radius.den
     /\ \A scale \in Scales :
          (currentPortal # Undefined /\ onPinchGesture(scale)) =>
            SameRadius(Get(currentPortal').radius, ExpectedRadius(scale))
    ]_vars

\* A portal being created whose radius is 5.0: only a call of
\* onPinchGesture that had to clamp leaves it there
C19_Witness ==
  /\ currentPortal # Undefined
  /\ SameRadius(Get(currentPortal).radius, [num |-> 50, den |-> 1])
  /\ isCreatingPortal

\* C20: while a portal is being created, a touch move that emits PINCH or
\* ZOOM with a positive scale leaves the portal with the radius
\* onPinchGesture gives for that scale: both gestures reach PortalManager.
C20_PinchAndZoomForwarded ==
  [][\A id \in PinchTouchIds, position \in PinchPositions :
       (/\ isCreatingPortal
        /\ currentPortal # Undefined
        /\ gestureCallbacks # <<>>
        /\ GameTouchMove(id, position)) =>
         \A i \in 1..Len(emitted') :
           (emitted'[i].type \in {"pinch", "zoom"}
              /\ emitted'[i].scale.num > 0) =>
             SameRadius(Get(currentPortal').radius,
                        ExpectedRadius(emitted'[i].scale))
    ]_vars

\* ------------------------------------------------------------------------
\* Every tap is one gesture
\* ------------------------------------------------------------------------
\* The discrete events that report the i-th tap: the TAP and DOUBLE_TAP
\* events that carry it, and the DOUBLE_TAP carried by the tap after it, of
\* which it is the first tap
ReportsOf(i) ==
  tapEvents[TapContact(i)] + doubleTapEvents[TapContact(i)]
    + (IF i < Len(taps) THEN doubleTapEvents[TapContact(i + 1)] ELSE 0)

\* No deferred callback is pending and the last tap is too long ago for a
\* later tap to be the second of a double tap with it
TapsSettled ==
  /\ timers = {}
  /\ prevTap # Undefined => now - Get(prevTap).time >= DOUBLE_TAP_INTERVAL

\* C21: once nothing more can be emitted for the taps so far, every tap is
\* reported by exactly one event: its own TAP, or the one DOUBLE_TAP of
\* which it is the first or the second tap.
C21_EveryTapIsOneGesture ==
  TapsSettled => \A i \in 1..Len(taps) : ReportsOf(i) = 1

\* ------------------------------------------------------------------------
\* Long presses
\* ------------------------------------------------------------------------
\* The touch of that identifier stayed within the tap displacement of the
\* place it started at, and has lasted longer than LONG_PRESS_DURATION
HeldInPlace(id) ==
  LET touchPoint == touchPoints[IndexOf(touchPoints, id)]
  IN  /\ distance(touchPoint.position, touchPoint.startPosition) < 10
      /\ now - touchPoint.startTime > 500

\* C22: the end of a touch emits LONG_PRESS exactly when the touch stayed
\* within 10 px of its start and lasted more than 500 ms; a touch that
\* moved farther emits no LONG_PRESS however long it lasted.
C22_LongPressOnlyInPlace ==
  [][\A id \in TapTouchIds :
       (IndexOf(touchPoints, id) # 0 /\ onTouchEnd(id)) =>
         (HasEvent(emitted', "long_press") <=> HeldInPlace(id))
    ]_vars

\* ------------------------------------------------------------------------
\* Cancelled touches
\* ------------------------------------------------------------------------
\* C23: the cancel of a tracked touch removes its touch point, emits
\* nothing, and leaves the pinch and rotation baselines cleared when fewer
\* than two touches remain, as a touch end does.
C23_CancelClearsBaseline ==
  [][\A id \in PinchTouchIds :
       (IndexOf(touchPoints, id) # 0 /\ onTouchCancel(id)) =>
         /\ IndexOf(touchPoints', id) = 0
         /\ emitted' = <<>>
         /\ Len(touchPoints') < 2 =>
              initialPinchDistance' = 0 /\ initialRotationAngle' = 0
    ]_vars

\* ------------------------------------------------------------------------
\* The baselines of two-finger gestures
\* ------------------------------------------------------------------------
\* C24: a step that takes the number of active touches below 2 leaves both
\* baselines cleared; a step that takes it from below 2 to 2 leaves them
\* captured from that pair; and PINCH or ZOOM is never computed against a
\* baseline distance of 0.
C24_BaselinesClearedAndRecaptured ==
  [][/\ (Len(touchPoints) >= 2 /\ Len(touchPoints') < 2) =>
          initialPinchDistance' = 0 /\ initialRotationAngle' = 0
     /\ (Len(touchPoints) < 2 /\ Len(touchPoints') = 2) =>
          /\ initialPinchDistance' =
               distance(touchPoints'[1].position, touchPoints'[2].position)
          /\ initialRotationAngle' =
               calculateAngle(touchPoints'[1].position,
                              touchPoints'[2].position)
     /\ \A i \in 1..Len(emitted') :
          emitted'[i].type \in {"pinch", "zoom"} => emitted'[i].scale.den # 0
    ]_vars

\* ------------------------------------------------------------------------
\* Events of touches that are not tracked
\* ------------------------------------------------------------------------
\* Three touch identifiers, of which at most MaxStrayContacts are ever
\* tracked: a move or an end of the others is a stray event
StrayTouchIds == {1, 2, 3}

StrayNext ==
  InputEvents(StrayTouchIds, PinchPositions, MaxStrayContacts, MaxStrayMoves)

SpecStray == Init /\ [][StrayNext]_vars

\* What InputController holds of touches, baselines and taps
TouchState ==
  <<touchPoints, initialPinchDistance, initialRotationAngle, lastTapTime,
    lastTapPosition, tapCount, timers>>

\* C25: a touch move or a touch end of an identifier that is not tracked
\* changes no touch point, baseline or tap state and emits no gesture,
\* whatever other touches are active.
C25_StrayEventIsNoOp ==
  [][\A id \in StrayTouchIds :
       (/\ IndexOf(touchPoints, id) = 0
        /\ \/ \E position \in PinchPositions : onTouchMove(id, position)
           \/ onTouchEnd(id)) =>
         /\ emitted' = <<>>
         /\ UNCHANGED TouchState
    ]_vars

\* ------------------------------------------------------------------------
\* dispose
\* ------------------------------------------------------------------------
\* The callback the owner of the session registers for TAP
TapListener == [name |-> "onTap", throws |-> FALSE]

\* A session with a TAP callback: one finger taps, time passes, deferred
\* callbacks run; the owner disposes of the controller once, and no touch
\* event arrives afterwards
DisposeNext ==
  \/ gestureCallbacks = <<>> /\ InputController_on("tap", TapListener)
  \/ /\ gestureCallbacks # <<>>
     /\ ~disposed
     /\ InputEvents(TapTouchIds, TapPositions, MaxDisposeContacts,
                    MaxDisposeMoves)
  \/ InputTimers
  \/ Tick(DisposeTimeStep, MaxDisposeTicks)
  \/ ~disposed /\ dispose

SpecDispose == Init /\ [][DisposeNext]_vars

\* C26: a deferred callback of recognizeTap that runs after dispose gives no
\* TAP event to any callback: the pending timer was cancelled.
C26_NoTapAfterDispose ==
  [][\A t \in timers :
       (disposed /\ TimerFire(t)) =>
         \A i \in 1..Len(invoked') : \A j \in 1..Len(invoked'[i]) :
           invoked'[i][j].event.type # "tap"
    ]_vars

\* ------------------------------------------------------------------------
\* Alignments that a touch or a release brings about
\* ------------------------------------------------------------------------
\* Three players next to one SYNCHRONIZED_TOUCH challenge of two players
AlignPlayerIds == {"p1", "p2", "p3"}

AlignNext ==
  \/ /\ UNCHANGED <<otherSystems, portalVars, histories>>
     /\ \E id \in AlignPlayerIds :
          /\ id \notin DOMAIN activePlayers
          /\ registerPlayer(NewPlayer(id, Vec3(5, 0, 0)))
  \/ /\ UNCHANGED <<otherSystems, portalVars, histories>>
     /\ challenges = <<>>
     /\ createChallenge("synchronized_touch", Vec3(0, 0, 0), 2)
  \/ /\ UNCHANGED <<otherSystems, portalVars, histories>>
     /\ updatePlayerProximity
  \/ /\ UNCHANGED <<otherSystems, portalVars, histories>>
     /\ \E id \in AlignPlayerIds : onPlayerTouch(id)
  \/ /\ UNCHANGED <<otherSystems, portalVars, histories>>
     /\ \E id \in AlignPlayerIds : onPlayerTouchRelease(id)
  \/ Tick(AlignTimeStep, MaxAlignTicks)

SpecAlign == Init /\ [][AlignNext]_vars

\* The synchronized-touch predicate of a challenge: it is an active, not
\* completed SYNCHRONIZED_TOUCH challenge, its participants with a touch
\* timestamp number at least requiredPlayers and their skew is at most
\* MAX_SYNC_DELAY
Aligned(challenge, touches) ==
  /\ challenge.type = "synchronized_touch"
  /\ challenge.isActive
  /\ ~challenge.isCompleted
  /\ Cardinality(Touching(challenge, touches)) >= challenge.requiredPlayers
  /\ Skew(Touching(challenge, touches), touches) <= 500

\* C27: a call of onPlayerTouch or onPlayerTouchRelease never returns with
\* a challenge for which the synchronized-touch predicate has become true
\* through the call: the alignment is seen and the challenge completed.
C27_AlignmentNeverMissed ==
  [][\A id \in AlignPlayerIds :
       (onPlayerTouch(id) \/ onPlayerTouchRelease(id)) =>
         \A i \in 1..Len(challenges) :
           ~Aligned(challenges[i], playerTouches) =>
             ~Aligned(challenges'[i], playerTouches')
    ]_vars

\* ------------------------------------------------------------------------
\* Challenges of one player
\* ------------------------------------------------------------------------
\* C28: a touch of a registered player completes an active, not completed
\* SYNCHRONIZED_TOUCH challenge created with requiredPlayers = 1 whenever
\* at least one of its participants is then touching and the skew of the
\* touching participants is at most 500 ms: a single touching participant
\* is enough.
C28_OnePlayerChallengeCompletes ==
  [][\A id \in DOMAIN activePlayers :
       onPlayerTouch(id) =>
         \A i \in 1..Len(challenges) :
           (/\ challenges[i].type = "synchronized_touch"
            /\ challenges[i].isActive
            /\ ~challenges[i].isCompleted
            /\ challenges[i].requiredPlayers = 1
            /\ Touching(challenges[i], playerTouches') # {}
            /\ Skew(Touching(challenges[i], playerTouches'), playerTouches')
                 <= 500)
           => challenges'[i].isCompleted
    ]_vars

\* ------------------------------------------------------------------------
\* Attempts that fail, and are made again
\* ------------------------------------------------------------------------
\* The challenge is an active, not completed SYNCHRONIZED_TOUCH challenge
\* whose touching participants number at least requiredPlayers, with a skew
\* above MAX_SYNC_DELAY: an attempt that failed
Misaligned(challenge, touches) ==
  /\ challenge.type = "synchronized_touch"
  /\ challenge.isActive
  /\ ~challenge.isCompleted
  /\ Cardinality(Touching(challenge, touches)) >= challenge.requiredPlayers
  /\ Skew(Touching(challenge, touches), touches) > 500

\* Two players at one SYNCHRONIZED_TOUCH challenge of two players touch and
\* release as time passes; the history keeps the challenges that a touch
\* left misaligned
RetryNext ==
  \/ /\ UNCHANGED <<otherSystems, portalVars, histories>>
     /\ \E id \in PlayerIds :
          /\ id \notin DOMAIN activePlayers
          /\ registerPlayer(NewPlayer(id, Vec3(5, 0, 0)))
  \/ /\ UNCHANGED <<otherSystems, portalVars, histories>>
     /\ challenges = <<>>
     /\ createChallenge("synchronized_touch", Vec3(0, 0, 0), 2)
  \/ /\ UNCHANGED <<otherSystems, portalVars, histories>>
     /\ updatePlayerProximity
  \/ /\ UNCHANGED <<otherSystems, portalVars, disposed, ignoredCalls,
                    lifecycleLog>>
     /\ \E id \in PlayerIds : onPlayerTouch(id)
     /\ failedAttempts' =
          failedAttempts
            \cup {i \in 1..Len(challenges') :
                    Misaligned(challenges'[i], playerTouches')}
  \/ /\ UNCHANGED <<otherSystems, portalVars, histories>>
     /\ \E id \in PlayerIds : onPlayerTouchRelease(id)
  \/ Tick(RetryTimeStep, MaxRetryTicks)

SpecRetry == Init /\ [][RetryNext]_vars

\* C29: a touch that leaves the touching participants of a challenge
\* misaligned leaves the challenge as it was, active and not completed; a
\* player who touches again is recorded at the time of the new touch; and a
\* touch that brings the touching participants of a misaligned challenge
\* within 500 ms of each other completes it.
C29_FailedAttemptCanBeRetried ==
  [][\A id \in DOMAIN activePlayers :
       onPlayerTouch(id) =>
         /\ playerTouches'[id] = now
         /\ \A i \in 1..Len(challenges) :
              /\ Misaligned(challenges[i], playerTouches') =>
                   challenges'[i] = challenges[i]
              /\ (/\ Misaligned(challenges[i], playerTouches)
                  /\ Skew(Touching(challenges[i], playerTouches'),
                          playerTouches') <= 500) =>
                   challenges'[i].isCompleted
    ]_vars

\* A challenge that a touch had left misaligned is completed
C29_Witness ==
  \E i \in failedAttempts :
    /\ challenges[i].isCompleted
    /\ Cardinality(Touching(challenges[i], playerTouches)) = 2
    /\ Skew(Touching(challenges[i], playerTouches), playerTouches) = 0

\* ------------------------------------------------------------------------
\* A MISS and the relay chain
\* ------------------------------------------------------------------------
\* C30: a hand-off classified MISS leaves the relay chain as resetRelayChain
\* leaves it, empty and with the multiplier at 1.0, and the hand-off that
\* follows a MISS is the first of an empty chain: GOOD, and the multiplier
\* stays as it is.
C30_MissResetsChain ==
  [][HandOff =>
       /\ HandOffTiming = "miss" =>
            relayChain' = <<>> /\ relayMultiplier' = 10
       /\ (relayLog # <<>> /\ relayLog[Len(relayLog)].timing = "miss") =>
            HandOffTiming = "good" /\ relayMultiplier' = relayMultiplier
    ]_vars

\* ------------------------------------------------------------------------
\* Calls that name a player who is not registered
\* ------------------------------------------------------------------------
\* The frame of the operations of CollaborationSystem in this session
AbsentFrame ==
  <<otherSystems, portalVars, disposed, failedAttempts, lifecycleLog>>

\* Two players come and go at one SYNCHRONIZED_TOUCH challenge; touches,
\* releases and relays name players whether or not they are registered, all
\* within one instant; the history keeps which operations were called for a
\* player who was not
AbsentNext ==
  \/ /\ UNCHANGED <<AbsentFrame, ignoredCalls>>
     /\ \E id \in PlayerIds :
          /\ id \notin DOMAIN activePlayers
          /\ registerPlayer(NewPlayer(id, Vec3(5, 0, 0)))
  \/ /\ UNCHANGED <<AbsentFrame, ignoredCalls>>
     /\ \E id \in PlayerIds : id \in DOMAIN activePlayers /\ unregisterPlayer(id)
  \/ /\ UNCHANGED <<AbsentFrame, ignoredCalls>>
     /\ challenges = <<>>
     /\ createChallenge("synchronized_touch", Vec3(0, 0, 0), 2)
  \/ /\ UNCHANGED <<AbsentFrame, ignoredCalls>>
     /\ updatePlayerProximity
  \/ /\ UNCHANGED AbsentFrame
     /\ \E id \in PlayerIds :
          /\ onPlayerTouch(id)
          /\ ignoredCalls' =
               IF id \in DOMAIN activePlayers THEN ignoredCalls
               ELSE ignoredCalls \cup {"onPlayerTouch"}
  \/ /\ UNCHANGED AbsentFrame
     /\ \E id \in PlayerIds :
          /\ onPlayerTouchRelease(id)
          /\ ignoredCalls' =
               IF id \in DOMAIN activePlayers THEN ignoredCalls
               ELSE ignoredCalls \cup {"onPlayerTouchRelease"}
  \/ /\ UNCHANGED AbsentFrame
     /\ \E from \in PlayerIds, to \in PlayerIds :
          /\ Len(relayChain) < MaxAbsentRelays
          /\ initiateEnergyRelay(from, to)
          /\ ignoredCalls' =
               IF {from, to} \subseteq DOMAIN activePlayers THEN ignoredCalls
               ELSE ignoredCalls \cup {"initiateEnergyRelay"}

SpecAbsent == Init /\ [][AbsentNext]_vars

\* What the claim has a call for an absent player leave alone
PlayerAndRelayState ==
  <<activePlayers, playerTouches, relayChain, relayMultiplier, challenges>>

\* C31: onPlayerTouch(p), onPlayerTouchRelease(p) and
\* initiateEnergyRelay(a, b) with p, a or b not registered change no player,
\* touch timestamp, relay chain, multiplier or challenge, and send nothing.
C31_AbsentPlayerIsIgnored ==
  [][/\ \A p \in PlayerIds \ DOMAIN activePlayers :
          (onPlayerTouch(p) \/ onPlayerTouchRelease(p)) =>
            UNCHANGED PlayerAndRelayState /\ effects' = <<>>
     /\ \A a \in PlayerIds, b \in PlayerIds :
          (~({a, b} \subseteq DOMAIN activePlayers)
             /\ initiateEnergyRelay(a, b)) =>
            UNCHANGED PlayerAndRelayState /\ effects' = <<>>
    ]_vars

\* All three operations have been called for an absent player, in a session
\* with a player who touches, a relay chain and an active challenge
C31_Witness ==
  /\ ignoredCalls =
       {"onPlayerTouch", "onPlayerTouchRelease", "initiateEnergyRelay"}
  /\ playerTouches # NoEntries
  /\ relayChain # <<>>
  /\ \E i \in 1..Len(challenges) : challenges[i].isActive

\* ------------------------------------------------------------------------
\* The side effects of activation and completion
\* ------------------------------------------------------------------------
\* The lifecycle notifications among the effects of an operation, in order
Notifications(sent) ==
  SelectSeq(sent, LAMBDA effect :
    /\ effect.kind = "sendTo"
    /\ effect.event \in {"challenge_activated", "challenge_completed"})

\* The number of effects of that kind and property
CountOf(sent, Test(_)) == Len(SelectSeq(sent, Test))

\* Two players come, go and move in and out of the radius of one challenge,
\* touch and release as time passes, and proximity is checked again and
\* again; the history keeps every lifecycle notification
LifecycleNext ==
  \/ /\ UNCHANGED <<otherSystems, portalVars, disposed, failedAttempts,
                    ignoredCalls>>
     /\ \/ \E id \in PlayerIds, position \in PlayerPositions :
             registerPlayer(NewPlayer(id, position))
        \/ \E id \in PlayerIds : unregisterPlayer(id)
        \/ \E requiredPlayers \in {1, 2} :
             /\ challenges = <<>>
             /\ createChallenge("synchronized_touch", Vec3(0, 0, 0),
                                requiredPlayers)
        \/ updatePlayerProximity
        \/ \E id \in PlayerIds : onPlayerTouch(id)
        \/ \E id \in PlayerIds : onPlayerTouchRelease(id)
     /\ lifecycleLog' = lifecycleLog \o Notifications(effects')
  \/ Tick(LifecycleTimeStep, MaxLifecycleTicks)

SpecLifecycle == Init /\ [][LifecycleNext]_vars

\* The notifications of the log that are about one challenge
LoggedFor(challengeId) ==
  SelectSeq(lifecycleLog, LAMBDA effect : effect.challengeId = challengeId)

\* C32: the notifications sent about a challenge are none, or
\* challenge_activated alone, or challenge_activated and then
\* challenge_completed; and each operation sends one COLLABORATION_START
\* haptic with every challenge_activated, and one SUCCESS haptic and one
\* challenge_reward with every challenge_completed.
C32_SideEffectsOnce ==
  /\ \A i \in 1..Len(challenges) :
       /\ Len(LoggedFor(challenges[i].id)) <= 2
       /\ Len(LoggedFor(challenges[i].id)) >= 1 =>
            LoggedFor(challenges[i].id)[1].event = "challenge_activated"
       /\ Len(LoggedFor(challenges[i].id)) = 2 =>
            LoggedFor(challenges[i].id)[2].event = "challenge_completed"
  /\ CountOf(effects, LAMBDA e : e.kind = "haptic" /\ e.pattern = "collab_start")
       = CountOf(effects, LAMBDA e : e.kind = "sendTo"
                                      /\ e.event = "challenge_activated")
  /\ CountOf(effects, LAMBDA e : e.kind = "haptic" /\ e.pattern = "success")
       = CountOf(effects, LAMBDA e : e.kind = "sendTo"
                                      /\ e.event = "challenge_completed")
  /\ CountOf(effects, LAMBDA e : e.kind = "broadcast"
                                 /\ e.event = "challenge_reward")
       = CountOf(effects, LAMBDA e : e.kind = "sendTo"
                                      /\ e.event = "challenge_completed")

\* A challenge was activated and completed, and proximity has been checked
\* since with both players within its radius
C32_Witness ==
  /\ Len(lifecycleLog) = 2
  /\ lifecycleLog[2].event = "challenge_completed"
  /\ effects = <<>>
  /\ \E i \in 1..Len(challenges) :
       /\ challenges[i].isCompleted
       /\ Cardinality(NearbyPlayers(challenges[i])) = 2

\* ------------------------------------------------------------------------
\* The delivery of envelopes to the handlers of their type
\* ------------------------------------------------------------------------
HAPTIC_EVENT == "haptic_event"

MaxDeliveries == 2

DeliveryTypes == {TOUCH_EVENT, HAPTIC_EVENT}

\* Handlers that only take note of the envelope
DeliveryCallbacks == {"listen", "record"}

\* The envelopes that arrive: of either type, from either player
DeliveryArrivals ==
  {Envelope(type, sender, StartTime, [playerId |-> sender]) :
     type \in DeliveryTypes, sender \in PlayerIds}

\* The sequence without its element at the index
WithoutIndex(seq, index) ==
  [i \in 1..(Len(seq) - 1) |-> IF i < index THEN seq[i] ELSE seq[i + 1]]

\* indexOf of an array: the first index of the element, 0 if there is none
FirstIndexOf(seq, element) ==
  IF \E i \in 1..Len(seq) : seq[i] = element
  THEN CHOOSE i \in 1..Len(seq) :
         seq[i] = element /\ \A j \in 1..(i - 1) : seq[j] # element
  ELSE 0

off(eventType, callback) ==
  /\ eventCallbacks' =
       IF eventType \in DOMAIN eventCallbacks
          /\ FirstIndexOf(eventCallbacks[eventType], callback) > 0
       THEN [eventCallbacks EXCEPT ![eventType] =
               WithoutIndex(@, FirstIndexOf(@, callback))]
       ELSE eventCallbacks
  /\ UNCHANGED <<pendingEvents, isConnected, latency, loopBacks, pings,
                 draining, seen, received, accepted, handled, syncVars,
                 beyondNet,
                 otherThanNet>>

\* The number of handlers registered, over all types
RegisteredCount ==
  LET count[types \in SUBSET DOMAIN eventCallbacks] ==
        IF types = {} THEN 0
        ELSE LET type == CHOOSE t \in types : TRUE
             IN  Len(eventCallbacks[type]) + count[types \ {type}]
  IN  count[DOMAIN eventCallbacks]

\* Handlers come and go, envelopes of two types arrive, the update loop
\* ticks, and the connection may be closed
DeliveryNext ==
  \/ \E eventType \in DeliveryTypes, callback \in DeliveryCallbacks :
        /\ ~draining
        /\ RegisteredCount < Cardinality(DeliveryCallbacks)
        /\ on(eventType, callback)
  \/ \E eventType \in DeliveryTypes, callback \in DeliveryCallbacks :
        ~draining /\ off(eventType, callback)
  \/ \E event \in DeliveryArrivals :
        /\ ~draining
        /\ received.own + received.other < MaxDeliveries
        /\ Arrival(event)
  \/ update
  \/ updateOn
  \/ ~draining /\ disconnect

SpecDelivery == Init /\ [][DeliveryNext]_vars

\* The envelopes handed out so far, in the order of the handing out
HandledEvents == [i \in 1..Len(handled) |-> handled[i].event]

\* The handlers registered for the type, in the order of registration
RegisteredFor(eventType) ==
  IF eventType \in DOMAIN eventCallbacks THEN eventCallbacks[eventType]
  ELSE <<>>

IsPrefix(short, long) ==
  Len(short) <= Len(long) /\ SubSeq(long, 1, Len(short)) = short

PLAYER_MOVE == "player_move"

\* The thresholds of hasStateChanged: 0.1 m, in centimetres, and 5 degrees
positionThreshold == 10
rotationThreshold == 5

MaxStateCalls == 3

\* A variant of hasStateChanged that does not look at the touching flag
hasStateChanged_NoTouch(newState, oldState) ==
  LET positionDelta == distance3(newState.position, oldState.position)
      rotationDelta == Abs(newState.rotation - oldState.rotation)
  IN  \/ positionDelta > positionThreshold
      \/ rotationDelta > rotationThreshold

hasStateChanged(newState, oldState) ==
  LET positionDelta == distance3(newState.position, oldState.position)
      rotationDelta == Abs(newState.rotation - oldState.rotation)
  IN  \/ positionDelta > positionThreshold
      \/ rotationDelta > rotationThreshold
      \/ newState.isTouching # oldState.isTouching

\* The states handed to syncPlayerState: at rest, 6 cm and 12 cm along a
\* line, turned by 3 and by 6 degrees, and touching
SyncChanges ==
  {<<0, 0, FALSE>>, <<6, 0, FALSE>>, <<12, 0, FALSE>>, <<0, 3, FALSE>>,
   <<0, 6, FALSE>>, <<0, 0, TRUE>>}

SyncStates ==
  {[id |-> id, position |-> Vec3(c[1], 0, 0), rotation |-> c[2],
    isTouching |-> c[3]] : id \in PlayerIds, c \in SyncChanges}

syncPlayerState(state) ==
  /\ IF /\ state.id \in DOMAIN lastSentStates
        /\ ~hasStateChanged(state, lastSentStates[state.id])
     THEN /\ syncCount' = [syncCount EXCEPT !.calls = @ + 1]
          /\ UNCHANGED <<loopBacks, lastSentStates, lastSent>>
     ELSE /\ transmitEvent(Envelope(PLAYER_MOVE, localPlayerId, now, state))
          /\ lastSentStates' = Put(lastSentStates, state.id, state)
          /\ lastSent' = Put(lastSent, state.id, state)
          /\ syncCount' = [calls |-> syncCount.calls + 1,
                           sends |-> syncCount.sends + 1]
  /\ UNCHANGED <<pendingEvents, isConnected, latency, eventCallbacks, pings,
                 draining, seen, received, accepted, handled, beyondNet,
                 otherThanNet>>

\* removePlayer; connectedPlayers is read by no operation here
removePlayer(playerId) ==
  /\ lastSentStates' = Remove(lastSentStates, playerId)
  /\ UNCHANGED <<pendingEvents, isConnected, latency, eventCallbacks,
                 loopBacks, pings, draining, seen, received, accepted,
                 handled, lastSent, syncCount, beyondNet, otherThanNet>>

\* The states of two players are synchronised, players are removed and the
\* connection is closed
StateNext ==
  \/ \E state \in SyncStates :
        syncCount.calls < MaxStateCalls /\ syncPlayerState(state)
  \/ \E playerId \in PlayerIds : removePlayer(playerId)
  \/ disconnect

SpecState == Init /\ [][StateNext]_vars

\* The change the claim names, between a state and an earlier one
Moved(state, earlier) ==
  LET dx == state.position.x - earlier.position.x
      dy == state.position.y - earlier.position.y
      dz == state.position.z - earlier.position.z
  IN  \/ dx * dx + dy * dy + dz * dz > positionThreshold * positionThreshold
      \/ state.rotation - earlier.rotation > rotationThreshold
      \/ earlier.rotation - state.rotation > rotationThreshold
      \/ state.isTouching # earlier.isTouching

MaxLocalTicks == 3
LocalTimeStep == 300

\* getLocalPlayerId: 'local_player_' and nine characters of Math.random,
\* drawn anew by every call; two of the outcomes
getLocalPlayerId == {"local_player_a", "local_player_b"}

registerLocalPlayer ==
  \E id \in getLocalPlayerId : registerPlayer(NewPlayer(id, Vec3(0, 0, 0)))

\* The TAP callback of setupInputHandlers, where getLocalPlayerId gives the
\* id; the history keeps whether the call was for a player not registered
TapCallback(id) ==
  /\ onPlayerTouch(id)
  /\ ignoredCalls' =
       IF id \in DOMAIN activePlayers THEN ignoredCalls
       ELSE ignoredCalls \cup {"onPlayerTouch"}
  /\ UNCHANGED <<otherSystems, portalVars, disposed, failedAttempts,
                 lifecycleLog>>

\* initialize registers the local player; then challenges for one player
\* and for two are created where the player stands, the game loop updates
\* the proximity, and the player taps
LocalNext ==
  \/ /\ activePlayers = NoEntries
     /\ registerLocalPlayer
     /\ UNCHANGED <<otherSystems, portalVars, histories>>
  \/ \E requiredPlayers \in {1, 2} :
        /\ activePlayers # NoEntries
        /\ Len(challenges) < 2
        /\ \A i \in 1..Len(challenges) :
              challenges[i].requiredPlayers # requiredPlayers
        /\ createChallenge("synchronized_touch", Vec3(0, 0, 0),
                           requiredPlayers)
        /\ UNCHANGED <<otherSystems, portalVars, histories>>
  \/ /\ activePlayers # NoEntries
     /\ updatePlayerProximity
     /\ UNCHANGED <<otherSystems, portalVars, histories>>
  \/ \E id \in getLocalPlayerId :
        activePlayers # NoEntries /\ TapCallback(id)
  \/ Tick(LocalTimeStep, MaxLocalTicks)

SpecLocal == Init /\ [][LocalNext]_vars

\* C35: after the TAP callback of GameController has run, the player that
\* registerLocalPlayer registered is touching: isTouching is true and the
\* touch has its timestamp, in the player and in playerTouches.
C35_LocalTapRecordsTouch ==
  [][\A id \in getLocalPlayerId :
        (activePlayers # NoEntries /\ TapCallback(id)) =>
           \A p \in DOMAIN activePlayers' :
              /\ activePlayers'[p].isTouching
              /\ activePlayers'[p].touchTimestamp = Some(now)
              /\ p \in DOMAIN playerTouches'
              /\ playerTouches'[p] = now]_vars
\* ------------------------------------------------------------------------
\* The touch timestamps and the touching flags
\* ------------------------------------------------------------------------
\* C36: the touch timestamps and the flags of the players agree: a
\* registered player has an entry in playerTouches iff the player is
\* touching, and the entry is the player's touchTimestamp.
C36_TouchMapAgreesWithFlags ==
  \A p \in DOMAIN activePlayers :
     /\ (p \in DOMAIN playerTouches) <=> activePlayers[p].isTouching
     /\ p \in DOMAIN playerTouches =>
          activePlayers[p].touchTimestamp = Some(playerTouches[p])
\* ------------------------------------------------------------------------
\* The pair of touches a baseline belongs to
\* ------------------------------------------------------------------------
MaxTripleContacts == 3
MaxTripleMoves == 1

\* Up to three fingers land, one of them moves, fingers end or are cancelled
TripleNext ==
  InputEvents(StrayTouchIds, PinchPositions, MaxTripleContacts,
              MaxTripleMoves)

SpecTriple == Init /\ [][TripleNext]_vars

\* The distance and the angle of the two touches where they began
PairStartDistance ==
  distance(touchPoints[1].startPosition, touchPoints[2].startPosition)
PairStartAngle ==
  calculateAngle(touchPoints[1].startPosition, touchPoints[2].startPosition)

\* C37: when two touches are active and a PINCH, ZOOM or ROTATE is emitted,
\* the baselines used are those of that pair when it formed. Checked at the
\* first move of a session: until then every touch is where it began, so
\* the pair had, when it formed, the distance and the angle of its start
\* positions; the scale is reported against that distance and the rotation
\* against that angle.
C37_BaselineOfTheSamePair ==
  [][\A id \in StrayTouchIds, position \in PinchPositions :
        (Len(touchPoints) = 2 /\ moves = 0 /\ onTouchMove(id, position)) =>
           \A i \in 1..Len(emitted') :
              /\ emitted'[i].type \in {"pinch", "zoom"} =>
                   emitted'[i].scale.den = PairStartDistance
              /\ emitted'[i].type = "rotate" =>
                   emitted'[i].rotation =
                     NormalizeAngle(
                       calculateAngle(touchPoints'[1].position,
                                      touchPoints'[2].position)
                         - PairStartAngle)]_vars
\* ------------------------------------------------------------------------
\* Taps on the targets of a MultiTouchPuzzle
\* ------------------------------------------------------------------------
MaxPuzzleAttempts == 3
MaxPuzzleTaps == 4
MaxPuzzleTicks == 2
PuzzleTimeStep == 300

\* Taps on the first target, at its centre and off it, on the second
\* target, and between the two
TapPlaces == {Vec(0, 0), Vec(5, 0), Vec(100, 0), Vec(50, 0)}

\* The puzzle is activated, started and reset, and the player taps
TouchPuzzleNext ==
  \/ puzzle.attempts < MaxPuzzleAttempts /\ MultiTouchPuzzle_activate
  \/ start
  \/ reset
  \/ \E position \in TapPlaces :
        puzzleCalls < MaxPuzzleTaps /\ TapOnPuzzle(position)
  \/ Tick(PuzzleTimeStep, MaxPuzzleTicks)

SpecTouchPuzzle == Init /\ [][TouchPuzzleNext]_vars

\* The targets that are touched
Touched(targets) == {i \in 1..Len(targets) : targets[i].isTouched}

\* C38: while the puzzle is activated and in progress, a TAP within the
\* radius of a target that is not touched marks the target touched and sets
\* the progress to 100 * touched / total; with every target touched the
\* puzzle is COMPLETED.
C38_TapMarksTarget ==
  [][\A position \in TapPlaces :
        (/\ puzzle.state = IN_PROGRESS
         /\ "tap" \in DOMAIN gestureCallbacks
         /\ TapOnPuzzle(position)) =>
           \A k \in 1..Len(touchTargets) :
              (/\ ~touchTargets[k].isTouched
               /\ distance(position, touchTargets[k].position)
                    <= touchTargets[k].radius) =>
                 /\ touchTargets'[k].isTouched
                 /\ puzzle'.progress * Len(touchTargets)
                      = 100 * Cardinality(Touched(touchTargets'))
                 /\ Cardinality(Touched(touchTargets')) = Len(touchTargets)
                      => puzzle'.state = COMPLETED]_vars
\* ------------------------------------------------------------------------
\* The states of a puzzle
\* ------------------------------------------------------------------------
MaxPlacementAttempts == 2
MaxPlacements == 3
MaxPlacementTicks == 1
PlacementTimeStep == 300

\* Portals placed at the target, 10 from it and 30 from it
Placements == {Vec3(200 + d, 300, 100) : d \in {0, 10, 30}}

\* A PrecisionPortalPlacement is activated, started and reset, and portals
\* are placed
PlacementNext ==
  \/ /\ puzzle.attempts < MaxPlacementAttempts
     /\ PrecisionPortalPlacement_activate
  \/ start
  \/ reset
  \/ \E position \in Placements :
        puzzleCalls < MaxPlacements /\ checkPortalPlacement(position)
  \/ Tick(PlacementTimeStep, MaxPlacementTicks)

SpecPlacement == Init /\ [][PlacementNext]_vars

\* C39: the state becomes ACTIVE only from INACTIVE and IN_PROGRESS only
\* from ACTIVE; it becomes COMPLETED only in a puzzle that was activated;
\* from COMPLETED it changes only through reset, to INACTIVE, and never to
\* FAILED; the progress is within 0..100, and the completion callback runs
\* at most once for an activation.
C39_PuzzleStateMachine ==
  [][/\ (puzzle'.state = ACTIVE /\ puzzle.state # ACTIVE)
          => puzzle.state = INACTIVE
     /\ (puzzle'.state = IN_PROGRESS /\ puzzle.state # IN_PROGRESS)
          => puzzle.state = ACTIVE
     /\ (puzzle'.state = COMPLETED /\ puzzle.state # COMPLETED)
          => puzzle.state \in {ACTIVE, IN_PROGRESS}
     /\ (puzzle.state = COMPLETED /\ puzzle'.state # COMPLETED)
          => puzzle'.state = INACTIVE /\ puzzle'.progress = 0
     /\ puzzle'.progress \in 0..100
     /\ completions' <= 1]_vars
\* ------------------------------------------------------------------------
\* The links between portals
\* ------------------------------------------------------------------------
MaxLinkedPortals == 3
MaxPortalId == 4

\* The ids that linkPortals and deletePortal are called with: those of the
\* portals made, and one that no portal has
PortalIds == 1..(MaxPortalId + 1)

\* Portals are created and activated, linked in pairs, and deleted
LinkNext ==
  \/ /\ ~isCreatingPortal
     /\ Len(portals) < MaxLinkedPortals
     /\ generatePortalId <= MaxPortalId
     /\ startPortalCreation
     /\ UNCHANGED <<now, inputVars, fingerAngle, collabVars, otherSystems,
                    histories>>
  \/ /\ currentPortal # Undefined
     /\ activatePortal
     /\ UNCHANGED <<now, inputVars, fingerAngle, collabVars, otherSystems,
                    histories>>
  \/ \E portal1Id \in PortalIds, portal2Id \in PortalIds :
        /\ linkPortals(portal1Id, portal2Id)
        /\ UNCHANGED <<now, inputVars, fingerAngle, collabVars, otherSystems,
                       histories>>
  \/ \E portalId \in PortalIds :
        /\ deletePortal(portalId)
        /\ UNCHANGED <<now, inputVars, fingerAngle, collabVars, otherSystems,
                       histories>>

SpecLink == Init /\ [][LinkNext]_vars

\* C40: the links are symmetric and none dangles: a portal with a
\* destination has it among the portals, and is the destination of it.
C40_LinksSymmetric ==
  \A i \in 1..Len(portals) :
     portals[i].destinationId # Undefined =>
        \E j \in 1..Len(portals) :
           /\ portals[j].id = Get(portals[i].destinationId)
           /\ portals[j].destinationId = Some(portals[i].id)
====
